---- MODULE Spec2Model ----
(***************************************************************************)
(* State-machine model of the NES emulator core: the 6502 processor        *)
(* registers and status flags, the descending wrap-around stack, the       *)
(* memory segments and the bus that dispatches addresses to them, and the  *)
(* byte/word primitives they are built from.                               *)
(*                                                                         *)
(* Program state: accumulator, x, y, program_counter, status, pointer      *)
(* (the stack pointer register), storage (the RAM of the cpu, indexed as   *)
(* the stack's view of it) and segments (the other memory segments, by     *)
(* name).                                                                  *)
(* History state: op (the operation executed last, with its operand and    *)
(* returned value), pre (the registers before that operation and the       *)
(* operation before it), track (the pushes not yet pulled) and run (the    *)
(* driver's position).                                                     *)
(***************************************************************************)
EXTENDS Integers, Sequences, FiniteSets, TLC

VARIABLES accumulator, x, y, program_counter, status, pointer, storage,
          segments, op, pre, track, run

vars == <<accumulator, x, y, program_counter, status, pointer, storage,
          segments, op, pre, track, run>>

registers == <<accumulator, x, y, program_counter, status, pointer>>

----------------------------------------------------------------------------
(* Widths of the integral types.                                           *)

ByteModulus == 256

WordModulus == 65536

Byte == 0 .. (ByteModulus - 1)

----------------------------------------------------------------------------
(* bitwise_wrapper<Derived, T>, byte and word.                             *)

\* static_cast<std::uint8_t>(other): reduction modulo 2^8, also of negatives.
to_byte(other) == other % ByteModulus

\* static_cast<std::uint16_t>(other)
to_word(other) == other % WordModulus

\* `result > 0xff` on an `unsigned int` parameter that was passed the int
\* `result`: a negative int converts to a value of at least 2^31.
exceeds_byte(result) == result < 0 \/ result > 255

\* Conversion of bool to int in an arithmetic expression.
bool_int(value) == IF value THEN 1 ELSE 0

\* (_value >> index) & 1
bit(value, index) == (value \div (2 ^ index)) % 2 = 1

high_bit(value) == bit(value, 7)

low_bit(value) == bit(value, 0)

sign(value) == bit(value, 7)

\* _value & ~(1 << index) | (value << index), stored back into a uint8_t.
set(value, index, flag) ==
    to_byte((value - (IF bit(value, index) THEN 2 ^ index ELSE 0))
            + bool_int(flag) * (2 ^ index))

increment_byte(value) == to_byte(value + 1)

decrement_byte(value) == to_byte(value - 1)

\* _value <<= 1; set(0, carry); returns the old high bit.
shift_left_byte(value, carry) ==
    [value |-> set(to_byte(value * 2), 0, carry), carry |-> high_bit(value)]

\* _value >>= 1; set(bit_count - 1, carry); returns the old low bit.
shift_right_byte(value, carry) ==
    [value |-> set(value \div 2, 7, carry), carry |-> low_bit(value)]

\* Faulty variant: the first byte becomes the low byte of the word.
make_word_low_first(high, low) == to_word(low * ByteModulus + high)

\* word{high, low}: high << 8 | low
make_word(high, low) == to_word(high * ByteModulus + low)

\* byte{_value >> 8}
high(value) == to_byte(value \div ByteModulus)

\* byte{_value & 0xff}
low(value) == to_byte(value % ByteModulus)

\* Faulty variant: the two's-complement negation instead of the bitwise complement.
complement_negated(operand) == to_byte(-operand)

\* ~operand on the promoted int, converted back to a byte argument.
complement(operand) == to_byte((-operand) - 1)

\* Bitwise AND of two non-negative ints.
RECURSIVE bit_and(_, _)
bit_and(left, right) ==
    IF left = 0 \/ right = 0 THEN 0
    ELSE (IF left % 2 = 1 /\ right % 2 = 1 THEN 1 ELSE 0)
         + 2 * bit_and(left \div 2, right \div 2)

\* The free function overflows(byte, byte).
free_overflows(left, right) ==
    LET carry_in == bit(left, 6) /\ bit(right, 6)
        carry_out == \/ (bit(left, 7) /\ bit(right, 7))
                     \/ (bit(left, 7) /\ carry_in)
                     \/ (bit(right, 7) /\ carry_in)
    IN  carry_in # carry_out

----------------------------------------------------------------------------
(* struct status.                                                          *)

\* Faulty variant: the overflow flag is read from bit 5.
status_from_bit5(other) ==
    [carry |-> bit(other, 0), zero |-> bit(other, 1),
     interrupt_disable |-> bit(other, 2), decimal |-> bit(other, 3),
     overflow |-> bit(other, 5), negative |-> bit(other, 7)]

\* status(byte other) and operator=(byte other): the six stored flags are
\* read from bits 0-3, 6, 7.
status_from(other) ==
    [carry |-> bit(other, 0), zero |-> bit(other, 1),
     interrupt_disable |-> bit(other, 2), decimal |-> bit(other, 3),
     overflow |-> bit(other, 6), negative |-> bit(other, 7)]

\* byte{result} of the unsigned parameter is the int reduced modulo 2^8
\* (2^32 is a multiple of 2^8).
logical(st, result) ==
    [st EXCEPT !.zero = (to_byte(result) = 0),
               !.negative = sign(to_byte(result))]

arithmetic(st, result) ==
    [logical(st, result) EXCEPT !.carry = exceeds_byte(result)]

\* Faulty variant: overflow whenever the result's sign differs from the left
\* operand's, whatever the right operand's sign.
overflows_left_only(st, left, right, result) ==
    [st EXCEPT !.overflow = (sign(left) # sign(to_byte(result)))]

overflows(st, left, right, result) ==
    [st EXCEPT !.overflow =
        (sign(left) = sign(right)) /\ (sign(left) # sign(to_byte(result)))]

----------------------------------------------------------------------------
(* class stack: the pointer register and its view of RAM.                  *)

\* First address of the stack's view: ram.subspan(word{0x100}, ...).
StackBase == 256

\* Number of cells of the stack's view: ram.subspan(..., word{0x200}).
StorageSize == 512

\* The cells of RAM are zero after construction (byte's _value = 0), so the
\* view is kept as the function from the local indices of its non-zero cells
\* to their values: every other cell reads as 0.  The cells of RAM outside
\* the view are kept with it, at the index they have relative to its first
\* cell.
read_cell(cells, index) == IF index \in DOMAIN cells THEN cells[index] ELSE 0

write_cell(cells, index, value) ==
    IF value = 0
    THEN [i \in (DOMAIN cells) \ {index} |-> cells[i]]
    ELSE [i \in (DOMAIN cells) \cup {index} |->
            IF i = index THEN value ELSE cells[i]]

\* The stack object of the current state.
stack == [pointer |-> pointer, storage |-> storage]

\* push(byte): _storage[pointer] = value; pointer.decrement();
push(stk, value) ==
    [pointer |-> decrement_byte(stk.pointer),
     storage |-> write_cell(stk.storage, stk.pointer, value)]

\* Faulty variant: the low byte pushed first.
push_word_low_first(stk, value) == push(push(stk, low(value)), high(value))

\* push(word): push(value.high()); push(value.low());
push_word(stk, value) == push(push(stk, high(value)), low(value))

\* Faulty variant: the cell is read before the pointer is incremented.
pull_read_first(stk) ==
    [stack |-> [stk EXCEPT !.pointer = increment_byte(stk.pointer)],
     index |-> stk.pointer,
     value |-> read_cell(stk.storage, stk.pointer)]

\* pull(): pointer.increment(); return _storage[pointer];
pull(stk) ==
    LET next == increment_byte(stk.pointer)
    IN  [stack |-> [stk EXCEPT !.pointer = next],
         index |-> next,
         value |-> read_cell(stk.storage, next)]

\* pull_word(): low = pull(); high = pull(); return word{high, low};
pull_word(stk) ==
    LET first == pull(stk)
        second == pull(first.stack)
    IN  [stack |-> second.stack,
         value |-> make_word(second.value, first.value)]

\* peek(): return _storage[pointer + 1]; the index is an int, not a byte.
peek(stk) ==
    [index |-> stk.pointer + 1,
     value |-> read_cell(stk.storage, stk.pointer + 1)]

----------------------------------------------------------------------------
(* class segment<size, begin, end> and class segment_view.                 *)

\* A segment: its three template arguments and its array _storage, zero
\* after construction and kept as the function from the indices of its
\* non-zero cells to their values.
Segment(name, size, begin, end) ==
    [name |-> name, size |-> size, begin |-> begin, end |-> end,
     storage |-> <<>>]

\* The % of two ints: the quotient is truncated towards zero, so the
\* remainder of a negative left operand is not positive.
remainder(left, right) ==
    IF left >= 0 THEN left % right ELSE -((-left) % right)

\* Faulty variant: the offset into the window is used as the index.
compute_index_unwrapped(seg, address) == address - seg.begin

\* segment::compute_index: (address - begin) % size
compute_index(seg, address) == remainder(address - seg.begin, seg.size)

\* segment::read: _storage[compute_index(address)]
segment_read(seg, address) == read_cell(seg.storage, compute_index(seg, address))

\* segment::write: _storage[compute_index(address)] = data
segment_write(seg, address, data) ==
    [seg EXCEPT !.storage = write_cell(@, compute_index(seg, address), data)]

\* Faulty variant: the last address of the window is not contained.
segment_contains_short(seg, address) ==
    address >= seg.begin /\ address < seg.end - 1

\* segment::contains: address >= begin && address < end
segment_contains(seg, address) == address >= seg.begin /\ address < seg.end

\* segment::view(): segment_view{span<byte>{_storage}, word{begin},
\* word{end}}; the span shares the cells of _storage and has its size.
view(seg) ==
    [segment |-> [size |-> seg.size, storage |-> seg.storage],
     begin |-> to_word(seg.begin), size |-> to_word(seg.end)]

\* segment_view::contains: address >= _begin && address - _begin < _size
view_contains(vw, address) ==
    address >= vw.begin /\ address - vw.begin < vw.size

\* segment_view::compute_index: (address - _begin) % _segment.size()
view_compute_index(vw, address) ==
    remainder(address - vw.begin, vw.segment.size)

\* segment_view::read: _segment[compute_index(address)]
view_read(vw, address) ==
    read_cell(vw.segment.storage, view_compute_index(vw, address))

\* segment_view::write: _segment[compute_index(address)] = data; the cell
\* written is a cell of the segment the view was taken from.
view_write(seg, address, data) ==
    [seg EXCEPT !.storage =
        write_cell(@, view_compute_index(view(seg), address), data)]

\* cpu::ram
CpuRam == Segment("cpu::ram", 2048, 0, 8192)

\* memory::registers
Registers == Segment("memory::registers", 32, 16384, 16416)

\* The segments next to the processor's RAM.
Bus == [registers |-> Registers]

----------------------------------------------------------------------------
(* class cartridge and class memory: the bus.                              *)

\* Bytes of the loaded PRG-ROM: two banks of 16 KB.
PrgSize == 32768

\* The byte at an index of the PRG-ROM image the runs use: the index plus
\* one in the first bank, the index plus two in the second, so that the low
\* byte of an index alone does not tell the two banks apart.
PrgByte(index) == to_byte(index + 1 + index \div 16384)

\* Bytes a read outside an array or from a device without model may give.
UnknownBytes == {0, 255}

\* The RAM of the cpu is the array the stack's view was taken from: the cell
\* with index i of the array has index i - 0x100 in the view.
ram_cell(address) == compute_index(CpuRam, address) - StackBase

\* The RAM device's read and write, which the bus calls as _cpu.read and
\* _cpu.write: those of the cpu's RAM segment.
cpu_read(cells, address) == read_cell(cells, ram_cell(address))

cpu_write(cells, address, data) == write_cell(cells, ram_cell(address), data)

\* The index _prg_lower.read(address) computes: segment_view::compute_index
\* with _begin 0x8000 and a span of 0x4000 bytes.
prg_index(address) == remainder(address - 32768, 16384)

\* cartridge::read: _prg_lower.read(address) on both branches, where
\* _prg_lower is the view of the first 0x4000 bytes of the PRG-ROM that
\* begins at 0x8000.  The set of bytes the read may return from a PRG-ROM
\* of the given size: an index outside the array has no defined cell.
rom_read(size, address) ==
    LET index == prg_index(address)
    IN  IF index >= 0 /\ index < size THEN {PrgByte(index)}
        ELSE UnknownBytes

\* The read of the cartridge on the bus, which holds two banks.
cartridge_read(address) == rom_read(PrgSize, address)

\* Faulty variant: the last address of each range goes to the next device.
dispatch_exclusive(address) ==
    IF address < 8191 THEN "cpu"
    ELSE IF address < 16383 THEN "ppu"
    ELSE IF address < 16415 THEN "registers"
    ELSE "cartridge"

\* memory::read and memory::write: the device an address is forwarded to.
dispatch(address) ==
    IF address < 8192 THEN "cpu"
    ELSE IF address < 16384 THEN "ppu"
    ELSE IF address < 16416 THEN "registers"
    ELSE "cartridge"

\* memory::read: the bytes the device may return.
memory_read(cells, segs, address) ==
    CASE dispatch(address) = "cpu" -> {cpu_read(cells, address)}
      [] dispatch(address) = "ppu" -> UnknownBytes
      [] dispatch(address) = "registers" ->
            {segment_read(segs.registers, address)}
      [] dispatch(address) = "cartridge" -> cartridge_read(address)

\* memory::write: the RAM and the segments after the device's write.  The
\* cartridge's write does nothing and the picture device has no model.
memory_write(cells, segs, address, data) ==
    CASE dispatch(address) = "cpu" ->
            [storage |-> cpu_write(cells, address, data), segments |-> segs]
      [] dispatch(address) = "registers" ->
            [storage |-> cells,
             segments |-> [segs EXCEPT !.registers =
                                segment_write(@, address, data)]]
      [] OTHER -> [storage |-> cells, segments |-> segs]

\* memory::map of the earlier bus: the location of the segment returned
\* for an address below 0x2000; above, control leaves the function without
\* a return statement.
map(address) ==
    IF address < 2048 THEN [outcome |-> "segment", location |-> 0]
    ELSE IF address < 4096 THEN [outcome |-> "segment", location |-> 2048]
    ELSE IF address < 6144 THEN [outcome |-> "segment", location |-> 4096]
    ELSE IF address < 8192 THEN [outcome |-> "segment", location |-> 6144]
    ELSE [outcome |-> "undefined", location |-> 0]

----------------------------------------------------------------------------
(* History and driver.                                                     *)

\* Longest instruction sequence the driver issues in its free mode.
MaxSteps == 4

\* Longest sequence of stack-object calls the driver issues in its free mode.
MaxCalls == 6

\* Most pushes of one run of the driver's fill mode.
MaxDepth == 256

NoFrame == [kind |-> "none", value |-> 0, at |-> 0, base |-> 0, peak |-> 0]

\* The entry of an operation that ended in the named way.
Outcome(kind) == [NoFrame EXCEPT !.kind = kind]

\* The entry of an access the bus forwarded: the device that received it
\* and the address it was given.
Forwarded(device, address) == [NoFrame EXCEPT !.kind = device, !.at = address]

\* Bytes of an entry: a byte, the return address of a call, or the
\* program counter and the flags of a break.
Size(kind) == IF kind = "byte" THEN 1 ELSE IF kind = "break" THEN 3 ELSE 2

\* Bytes pushed and not yet pulled.
Held(shadow) ==
    IF shadow = <<>> THEN 0
    ELSE shadow[Len(shadow)].base + Size(shadow[Len(shadow)].kind)

Top(shadow) == IF shadow = <<>> THEN NoFrame ELSE shadow[Len(shadow)]

\* A push of `kind` with the pointer at `at`: one more entry.
Pushed(shadow, kind, value, at) ==
    Append(shadow, [kind |-> kind, value |-> value, at |-> at,
                    base |-> Held(shadow),
                    peak |-> Held(shadow) + Size(kind)])

\* A pull of `kind`: the matching entry leaves, and the entry under it
\* learns how far the stack grew above it; a pull that matches no push
\* makes every entry still held unmatched.
Pulled(shadow, kind) ==
    IF Top(shadow).kind # kind THEN <<>>
    ELSE LET rest == SubSeq(shadow, 1, Len(shadow) - 1)
             n == Len(rest)
         IN  IF n = 0 THEN rest
             ELSE [rest EXCEPT ![n].peak =
                      IF shadow[n + 1].peak > @ THEN shadow[n + 1].peak ELSE @]

Matched(shadow, kind) == IF Top(shadow).kind = kind THEN Top(shadow) ELSE NoFrame

AluOps == {"adc", "sbc", "asl", "lsr", "bit", "cmp", "cpx", "cpy", "overflows"}

ObjectOps == {"push", "pull", "peek"}

StackOps == {"jsr", "rts", "pha", "pla", "php", "plp"}

FlagOps == {"instruction_value", "interrupt_value", "assign", "php"}

BusOps == {"memory_read", "memory_write", "map"}

TransferOps == {"tax", "tay", "tsx", "txa", "txs", "tya"}

LoadOps == {"lda", "ldx", "ldy"}

StoreOps == {"sta", "stx", "sty"}

RotateOps == {"rol", "ror", "rol_reference", "ror_reference"}

StepOps == {"dec", "dex", "dey", "inc", "inx", "iny"}

BranchOps == {"bcs", "bcc", "beq", "bne", "bmi", "bpl", "bvs", "bvc"}

JumpOps == BranchOps \cup {"jmp"}

CartridgeOps == {"cartridge", "cartridge_read"}

RomOps == {"read_rom"}

ValueOps == {"plus", "split", "word"}

ReferenceOps == {"assign_word", "reference_word"}

ViewOps == {"view_contains", "segment_write", "view_read"}

SegmentWrites == {"segment_write", "view_write"}

SegmentReads == {"segment_read", "view_read"}

\* The driver decides which operation comes next: one arithmetic operation
\* on drawn inputs ("single"), any sequence up to a length ("free" for stack
\* instructions, "calls" for calls of the stack object), a run of pushes
\* followed by as many pulls ("fill"), or such a run inside one subroutine
\* call ("nest"), a break and the return from it ("break"), or one use of
\* one load, store or transfer ("load", "transfer"), one or two rotates
\* ("rotate"), or one use of the
\* status byte: a value taken and then
\* assigned, or pushed and then pulled ("flags"), or one use of a segment:
\* a contains, or one or two writes and then a read ("segment").
Ready(name) ==
    CASE run.mode = "single" -> name \in AluOps /\ op.name = "init"
      [] run.mode = "bus" -> name \in BusOps /\ op.name = "init"
      [] run.mode = "view" ->
            CASE name \in {"view_contains", "segment_write"} ->
                    op.name = "init"
              [] name = "view_read" -> op.name = "segment_write"
              [] OTHER -> FALSE
      [] run.mode = "reference" ->
            CASE name = "assign_word" -> op.name = "init"
              [] name = "reference_word" -> op.name = "assign_word"
              [] OTHER -> FALSE
      [] run.mode = "sum" -> name = "plus" /\ op.name = "init"
      [] run.mode = "word" ->
            CASE name = "split" -> op.name = "init"
              [] name = "word" -> op.name = "split"
              [] OTHER -> FALSE
      [] run.mode = "rom" -> name \in RomOps /\ op.name = "init"
      [] run.mode = "cartridge" ->
            CASE name = "cartridge" -> op.name = "init"
              [] name = "cartridge_read" ->
                    op.name = "cartridge" /\ segments.cartridge.state = "built"
              [] OTHER -> FALSE
      [] run.mode = "branch" -> name \in JumpOps /\ op.name = "init"
      [] run.mode = "step" -> name \in StepOps /\ op.name = "init"
      [] run.mode = "transfer" -> name \in TransferOps /\ op.name = "init"
      [] run.mode = "rotate" ->
            /\ name \in RotateOps
            /\ \/ op.name = "init"
               \/ op.name \in RotateOps /\ pre.op.name = "init"
                  /\ op.frame.kind # "trap"
      [] run.mode = "load" ->
            name \in LoadOps \cup StoreOps /\ op.name = "init"
      [] run.mode = "break" ->
            CASE name = "brk" -> op.name = "init"
              [] name = "rti" -> op.name = "brk"
              [] OTHER -> FALSE
      [] run.mode = "segment" ->
            CASE name = "contains" -> op.name = "init"
              [] name \in SegmentWrites ->
                    \/ op.name = "init"
                    \/ op.name \in SegmentWrites /\ pre.op.name = "init"
              [] name \in SegmentReads -> op.name \in SegmentWrites
              [] OTHER -> FALSE
      [] run.mode = "flags" ->
            CASE name \in FlagOps /\ op.name = "init" -> TRUE
              [] name = "assign" ->
                    op.name \in {"instruction_value", "interrupt_value"}
              [] name = "plp" -> op.name = "php"
              [] OTHER -> FALSE
      [] run.mode = "free" -> name \in StackOps /\ run.steps < MaxSteps
      [] run.mode = "calls" -> name \in ObjectOps /\ run.steps < MaxCalls
      [] run.mode = "fill" ->
            CASE name = "push" -> run.phase = "push" /\ run.steps < MaxDepth
              [] name = "pull" -> Top(track).kind = "byte"
              [] OTHER -> FALSE
      [] run.mode = "nest" ->
            CASE name = "jsr" -> op.name = "init"
              [] name = "pha" -> /\ track # <<>> /\ run.phase = "push"
                                 /\ run.steps < MaxDepth
              [] name = "pla" -> Top(track).kind = "byte"
              [] name = "rts" -> Top(track).kind = "call"
              [] OTHER -> FALSE

Advance(name) ==
    run' = CASE run.mode \in {"fill", "nest"} ->
                  [run EXCEPT !.phase = IF name \in {"pla", "pull"}
                                        THEN "pull" ELSE @,
                              !.steps = IF name \in {"pha", "push"}
                                        THEN @ + 1 ELSE @]
             [] OTHER -> [run EXCEPT !.steps = @ + 1]

Log(name, operand, result, frame) ==
    /\ op' = [name |-> name, operand |-> operand, result |-> result,
              frame |-> frame]
    /\ pre' = [accumulator |-> accumulator, x |-> x, y |-> y,
               program_counter |-> program_counter, status |-> status,
               pointer |-> pointer, segments |-> segments,
               op |-> [name |-> op.name, operand |-> op.operand,
                       result |-> op.result]]

----------------------------------------------------------------------------
(* class processor: arithmetic, bitwise and compare instructions.          *)

\* adc: result = A + M + C; arithmetic(result); overflows(A, M, result);
\* A = result.
adc_result(acc, st, operand) ==
    LET result == acc + operand + bool_int(st.carry)
    IN  [accumulator |-> to_byte(result),
         status |-> overflows(arithmetic(st, result), acc, operand, result)]

\* sbc: adc(~operand)
sbc_result(acc, st, operand) == adc_result(acc, st, complement(operand))

\* processor::shift_left: carry = operand.bit(7); operand.shift_left();
\* arithmetic(operand).
shift_left(st, operand) ==
    LET shifted == shift_left_byte(operand, FALSE).value
    IN  [value |-> shifted,
         status |-> arithmetic([st EXCEPT !.carry = bit(operand, 7)], shifted)]

\* processor::shift_right: carry = operand.bit(0); operand.shift_right();
\* arithmetic(operand).
shift_right(st, operand) ==
    LET shifted == shift_right_byte(operand, FALSE).value
    IN  [value |-> shifted,
         status |-> arithmetic([st EXCEPT !.carry = bit(operand, 0)], shifted)]

\* bit: zero = (A & operand == 0), where == binds tighter than &.
bit_test(acc, st, operand) ==
    [st EXCEPT !.zero = (bit_and(acc, bool_int(operand = 0)) # 0),
               !.overflow = bit(operand, 6),
               !.negative = bit(operand, 7)]

\* compare: result = left - right; logical(result); carry = left > right.
compare(st, left, right) ==
    [logical(st, left - right) EXCEPT !.carry = (left > right)]

adc(operand) ==
    /\ Ready("adc")
    /\ accumulator' = adc_result(accumulator, status, operand).accumulator
    /\ status' = adc_result(accumulator, status, operand).status
    /\ UNCHANGED <<segments, x, y, program_counter, pointer, storage, track>>
    /\ Log("adc", operand, 0, NoFrame) /\ Advance("adc")

sbc(operand) ==
    /\ Ready("sbc")
    /\ accumulator' = sbc_result(accumulator, status, operand).accumulator
    /\ status' = sbc_result(accumulator, status, operand).status
    /\ UNCHANGED <<segments, x, y, program_counter, pointer, storage, track>>
    /\ Log("sbc", operand, 0, NoFrame) /\ Advance("sbc")

asl ==
    /\ Ready("asl")
    /\ accumulator' = shift_left(status, accumulator).value
    /\ status' = shift_left(status, accumulator).status
    /\ UNCHANGED <<segments, x, y, program_counter, pointer, storage, track>>
    /\ Log("asl", accumulator, 0, NoFrame) /\ Advance("asl")

lsr ==
    /\ Ready("lsr")
    /\ accumulator' = shift_right(status, accumulator).value
    /\ status' = shift_right(status, accumulator).status
    /\ UNCHANGED <<segments, x, y, program_counter, pointer, storage, track>>
    /\ Log("lsr", accumulator, 0, NoFrame) /\ Advance("lsr")

bit_instruction(operand) ==
    /\ Ready("bit")
    /\ status' = bit_test(accumulator, status, operand)
    /\ UNCHANGED <<segments, accumulator, x, y, program_counter, pointer,
                   storage, track>>
    /\ Log("bit", operand, 0, NoFrame) /\ Advance("bit")

cmp(operand) ==
    /\ Ready("cmp")
    /\ status' = compare(status, accumulator, operand)
    /\ UNCHANGED <<segments, accumulator, x, y, program_counter, pointer,
                   storage, track>>
    /\ Log("cmp", operand, 0, NoFrame) /\ Advance("cmp")

cpx(operand) ==
    /\ Ready("cpx")
    /\ status' = compare(status, x, operand)
    /\ UNCHANGED <<segments, accumulator, x, y, program_counter, pointer,
                   storage, track>>
    /\ Log("cpx", operand, 0, NoFrame) /\ Advance("cpx")

cpy(operand) ==
    /\ Ready("cpy")
    /\ status' = compare(status, y, operand)
    /\ UNCHANGED <<segments, accumulator, x, y, program_counter, pointer,
                   storage, track>>
    /\ Log("cpy", operand, 0, NoFrame) /\ Advance("cpy")

\* A call overflows(left, right) of the free function; the returned bool is
\* recorded as 0 or 1.
overflows_call(left, right) ==
    /\ Ready("overflows")
    /\ left = accumulator
    /\ UNCHANGED <<segments, registers, storage, track>>
    /\ Log("overflows", right, bool_int(free_overflows(left, right)), NoFrame)
    /\ Advance("overflows")

----------------------------------------------------------------------------
(* class stack, called directly.                                           *)

stack_push(value) ==
    /\ Ready("push")
    /\ pointer' = push(stack, value).pointer
    /\ storage' = push(stack, value).storage
    /\ track' = Pushed(track, "byte", value, pointer)
    /\ UNCHANGED <<segments, accumulator, x, y, program_counter, status>>
    /\ Log("push", value, 0, NoFrame) /\ Advance("push")

stack_pull ==
    /\ Ready("pull")
    /\ pointer' = pull(stack).stack.pointer
    /\ storage' = pull(stack).stack.storage
    /\ track' = Pulled(track, "byte")
    /\ UNCHANGED <<segments, accumulator, x, y, program_counter, status>>
    /\ Log("pull", 0, pull(stack).value, Matched(track, "byte"))
    /\ Advance("pull")

\* The index peek() reads is recorded as the operand.
stack_peek ==
    /\ Ready("peek")
    /\ UNCHANGED <<segments, registers, storage, track>>
    /\ Log("peek", peek(stack).index, peek(stack).value, NoFrame)
    /\ Advance("peek")

----------------------------------------------------------------------------
(* class processor: stack and subroutine instructions.                     *)

\* Faulty variant: the decimal flag is placed at bit 4.
status_value_decimal_bit4(st) ==
    bool_int(st.carry) + 2 * bool_int(st.zero)
    + 4 * bool_int(st.interrupt_disable) + 16 * bool_int(st.decimal)
    + 64 * bool_int(st.overflow) + 128 * bool_int(st.negative)

\* status::value(): the six flags at bits 0-3, 6, 7.
status_value(st) ==
    bool_int(st.carry) + 2 * bool_int(st.zero)
    + 4 * bool_int(st.interrupt_disable) + 8 * bool_int(st.decimal)
    + 64 * bool_int(st.overflow) + 128 * bool_int(st.negative)

\* value().set(5).set(4)
instruction_value(st) == set(set(status_value(st), 5, TRUE), 4, TRUE)

\* value().set(5)
interrupt_value(st) == set(status_value(st), 5, TRUE)

\* Faulty variant: the pulled word is not incremented.
return_address_as_pulled(pulled) == to_word(pulled)

\* rts: the program counter is pull_word() + 1, stored into a word.
return_address(pulled) == to_word(pulled + 1)

\* jsr: the word pushed is _program_counter - 1, converted to a word.
call_address(counter) == to_word(counter - 1)

pha ==
    /\ Ready("pha")
    /\ pointer' = push(stack, accumulator).pointer
    /\ storage' = push(stack, accumulator).storage
    /\ track' = Pushed(track, "byte", accumulator, pointer)
    /\ UNCHANGED <<segments, accumulator, x, y, program_counter, status>>
    /\ Log("pha", accumulator, 0, NoFrame) /\ Advance("pha")

php ==
    /\ Ready("php")
    /\ pointer' = push(stack, instruction_value(status)).pointer
    /\ storage' = push(stack, instruction_value(status)).storage
    /\ track' = Pushed(track, "byte", instruction_value(status), pointer)
    /\ UNCHANGED <<segments, accumulator, x, y, program_counter, status>>
    /\ Log("php", instruction_value(status), 0, NoFrame) /\ Advance("php")

pla ==
    /\ Ready("pla")
    /\ accumulator' = pull(stack).value
    /\ pointer' = pull(stack).stack.pointer
    /\ storage' = pull(stack).stack.storage
    /\ track' = Pulled(track, "byte")
    /\ UNCHANGED <<segments, x, y, program_counter, status>>
    /\ Log("pla", 0, pull(stack).value, Matched(track, "byte"))
    /\ Advance("pla")

plp ==
    /\ Ready("plp")
    /\ status' = status_from(pull(stack).value)
    /\ pointer' = pull(stack).stack.pointer
    /\ storage' = pull(stack).stack.storage
    /\ track' = Pulled(track, "byte")
    /\ UNCHANGED <<segments, accumulator, x, y, program_counter>>
    /\ Log("plp", 0, pull(stack).value, Matched(track, "byte"))
    /\ Advance("plp")

\* The entry kept for a call holds the program counter at the call.
jsr(location) ==
    /\ Ready("jsr")
    /\ pointer' = push_word(stack, call_address(program_counter)).pointer
    /\ storage' = push_word(stack, call_address(program_counter)).storage
    /\ program_counter' = location
    /\ track' = Pushed(track, "call", program_counter, pointer)
    /\ UNCHANGED <<segments, accumulator, x, y, status>>
    /\ Log("jsr", location, 0, NoFrame) /\ Advance("jsr")

rts ==
    /\ Ready("rts")
    /\ program_counter' = return_address(pull_word(stack).value)
    /\ pointer' = pull_word(stack).stack.pointer
    /\ storage' = pull_word(stack).stack.storage
    /\ track' = Pulled(track, "call")
    /\ UNCHANGED <<segments, accumulator, x, y, status>>
    /\ Log("rts", 0, pull_word(stack).value, Matched(track, "call"))
    /\ Advance("rts")

----------------------------------------------------------------------------
(* struct status, called directly.                                         *)

\* A call _status.instruction_value(); the returned byte is recorded.
instruction_value_call ==
    /\ Ready("instruction_value")
    /\ UNCHANGED <<segments, registers, storage, track>>
    /\ Log("instruction_value", 0, instruction_value(status), NoFrame)
    /\ Advance("instruction_value")

\* A call _status.interrupt_value(); the returned byte is recorded.
interrupt_value_call ==
    /\ Ready("interrupt_value")
    /\ UNCHANGED <<segments, registers, storage, track>>
    /\ Log("interrupt_value", 0, interrupt_value(status), NoFrame)
    /\ Advance("interrupt_value")

\* _status = other
status_assign(other) ==
    /\ Ready("assign")
    /\ status' = status_from(other)
    /\ UNCHANGED <<segments, accumulator, x, y, program_counter, pointer,
                   storage, track>>
    /\ Log("assign", other, 0, NoFrame) /\ Advance("assign")

----------------------------------------------------------------------------
(* class segment and class segment_view, called directly.                  *)

\* The segment the calls of a segment run are made on.
segment == segments.segment

\* A call segment.contains(address); the returned bool is recorded as 0 or 1.
contains_call(address) ==
    /\ Ready("contains")
    /\ UNCHANGED <<registers, storage, segments, track>>
    /\ Log("contains", address, bool_int(segment_contains(segment, address)),
           NoFrame)
    /\ Advance("contains")

\* A call segment.write(address, data); the byte written is recorded as the
\* result.
segment_write_call(address, data) ==
    /\ Ready("segment_write")
    /\ segments' = [segments EXCEPT
                        !.segment = segment_write(segment, address, data)]
    /\ UNCHANGED <<registers, storage, track>>
    /\ Log("segment_write", address, data, NoFrame)
    /\ Advance("segment_write")

\* A call segment.read(address).
segment_read_call(address) ==
    /\ Ready("segment_read")
    /\ UNCHANGED <<registers, storage, segments, track>>
    /\ Log("segment_read", address, segment_read(segment, address), NoFrame)
    /\ Advance("segment_read")

\* A call segment.view().write(address, data).
view_write_call(address, data) ==
    /\ Ready("view_write")
    /\ segments' = [segments EXCEPT
                        !.segment = view_write(segment, address, data)]
    /\ UNCHANGED <<registers, storage, track>>
    /\ Log("view_write", address, data, NoFrame)
    /\ Advance("view_write")

\* A call segment.view().read(address).
view_read_call(address) ==
    /\ Ready("view_read")
    /\ UNCHANGED <<registers, storage, segments, track>>
    /\ Log("view_read", address, view_read(view(segment), address), NoFrame)
    /\ Advance("view_read")

\* A call segment.view().contains(address); the returned bool is recorded
\* as 0 or 1.
view_contains_call(address) ==
    /\ Ready("view_contains")
    /\ UNCHANGED <<registers, storage, segments, track>>
    /\ Log("view_contains", address,
           bool_int(view_contains(view(segment), address)), NoFrame)
    /\ Advance("view_contains")

----------------------------------------------------------------------------
(* class reference and the instructions brk and rti.                       *)

\* reference::operator word(): word{_host.read(_address),
\* _host.read(word{_address + 1})}, where the first argument of word{,} is
\* the high byte.  The set of words the conversion may give.
reference_word(cells, segs, address) ==
    {make_word(first, second) :
        first \in memory_read(cells, segs, address),
        second \in memory_read(cells, segs, to_word(address + 1))}

\* The stack after the two pushes of brk.
brk_stack(stk, counter, st) ==
    push(push_word(stk, counter), instruction_value(st))

\* brk: _stack.push(_program_counter); _stack.push(instruction_value());
\* _program_counter = vector.  The entry kept for a break holds the program
\* counter at the break.
brk(vector) ==
    /\ Ready("brk")
    /\ pointer' = brk_stack(stack, program_counter, status).pointer
    /\ storage' = brk_stack(stack, program_counter, status).storage
    /\ program_counter' \in
            reference_word(brk_stack(stack, program_counter, status).storage,
                           segments, vector)
    /\ track' = Pushed(track, "break", program_counter, pointer)
    /\ UNCHANGED <<segments, accumulator, x, y, status>>
    /\ Log("brk", vector, 0, NoFrame) /\ Advance("brk")

\* rti: _status = _stack.pull(); _program_counter = _stack.pull_word();
\* the byte pulled for the status is recorded as the result.
rti ==
    /\ Ready("rti")
    /\ status' = status_from(pull(stack).value)
    /\ program_counter' = pull_word(pull(stack).stack).value
    /\ pointer' = pull_word(pull(stack).stack).stack.pointer
    /\ storage' = pull_word(pull(stack).stack).stack.storage
    /\ track' = Pulled(track, "break")
    /\ UNCHANGED <<segments, accumulator, x, y>>
    /\ Log("rti", 0, pull(stack).value, Matched(track, "break"))
    /\ Advance("rti")

----------------------------------------------------------------------------
(* class processor: loads, stores and transfers.                           *)

\* Faulty variant: the load sets zero and negative from the operand.
load_with_flags(st, operand) ==
    [to |-> operand, status |-> logical(st, operand)]

\* lda, ldx, ldy: the register is assigned the operand; the status is not
\* touched.
load(st, operand) == [to |-> operand, status |-> st]

\* processor::transfer: to = from; _status.logical(to);
transfer(st, from) == [to |-> from, status |-> logical(st, from)]

lda(operand) ==
    /\ Ready("lda")
    /\ accumulator' = load(status, operand).to
    /\ status' = load(status, operand).status
    /\ UNCHANGED <<x, y, program_counter, pointer, storage, segments, track>>
    /\ Log("lda", operand, 0, NoFrame) /\ Advance("lda")

ldx(operand) ==
    /\ Ready("ldx")
    /\ x' = load(status, operand).to
    /\ status' = load(status, operand).status
    /\ UNCHANGED <<accumulator, y, program_counter, pointer, storage,
                   segments, track>>
    /\ Log("ldx", operand, 0, NoFrame) /\ Advance("ldx")

ldy(operand) ==
    /\ Ready("ldy")
    /\ y' = load(status, operand).to
    /\ status' = load(status, operand).status
    /\ UNCHANGED <<accumulator, x, program_counter, pointer, storage,
                   segments, track>>
    /\ Log("ldy", operand, 0, NoFrame) /\ Advance("ldy")

\* sta(reference operand): operand = _accumulator, which is
\* reference::operator=(byte): _host.write(_address, data).  The address of
\* the reference is recorded as the operand and the byte as the result.
sta(address) ==
    /\ Ready("sta")
    /\ storage' = memory_write(storage, segments, address, accumulator).storage
    /\ segments' = memory_write(storage, segments, address, accumulator).segments
    /\ UNCHANGED <<registers, track>>
    /\ Log("sta", address, accumulator, Forwarded(dispatch(address), address))
    /\ Advance("sta")

stx(address) ==
    /\ Ready("stx")
    /\ storage' = memory_write(storage, segments, address, x).storage
    /\ segments' = memory_write(storage, segments, address, x).segments
    /\ UNCHANGED <<registers, track>>
    /\ Log("stx", address, x, Forwarded(dispatch(address), address))
    /\ Advance("stx")

sty(address) ==
    /\ Ready("sty")
    /\ storage' = memory_write(storage, segments, address, y).storage
    /\ segments' = memory_write(storage, segments, address, y).segments
    /\ UNCHANGED <<registers, track>>
    /\ Log("sty", address, y, Forwarded(dispatch(address), address))
    /\ Advance("sty")

tax ==
    /\ Ready("tax")
    /\ x' = transfer(status, accumulator).to
    /\ status' = transfer(status, accumulator).status
    /\ UNCHANGED <<accumulator, y, program_counter, pointer, storage,
                   segments, track>>
    /\ Log("tax", accumulator, 0, NoFrame) /\ Advance("tax")

tay ==
    /\ Ready("tay")
    /\ y' = transfer(status, accumulator).to
    /\ status' = transfer(status, accumulator).status
    /\ UNCHANGED <<accumulator, x, program_counter, pointer, storage,
                   segments, track>>
    /\ Log("tay", accumulator, 0, NoFrame) /\ Advance("tay")

tsx ==
    /\ Ready("tsx")
    /\ x' = transfer(status, pointer).to
    /\ status' = transfer(status, pointer).status
    /\ UNCHANGED <<accumulator, y, program_counter, pointer, storage,
                   segments, track>>
    /\ Log("tsx", pointer, 0, NoFrame) /\ Advance("tsx")

txa ==
    /\ Ready("txa")
    /\ accumulator' = transfer(status, x).to
    /\ status' = transfer(status, x).status
    /\ UNCHANGED <<x, y, program_counter, pointer, storage, segments, track>>
    /\ Log("txa", x, 0, NoFrame) /\ Advance("txa")

txs ==
    /\ Ready("txs")
    /\ pointer' = transfer(status, x).to
    /\ status' = transfer(status, x).status
    /\ UNCHANGED <<accumulator, x, y, program_counter, storage, segments,
                   track>>
    /\ Log("txs", x, 0, NoFrame) /\ Advance("txs")

tya ==
    /\ Ready("tya")
    /\ accumulator' = transfer(status, y).to
    /\ status' = transfer(status, y).status
    /\ UNCHANGED <<x, y, program_counter, pointer, storage, segments, track>>
    /\ Log("tya", y, 0, NoFrame) /\ Advance("tya")

----------------------------------------------------------------------------
(* class processor: rotates.                                               *)

\* bitwise_wrapper::rotate_left(bool& carry): carry = shift_left(carry)
rotate_left_byte(value, carry) == shift_left_byte(value, carry)

\* bitwise_wrapper::rotate_right(bool& carry): carry = shift_right(carry)
rotate_right_byte(value, carry) == shift_right_byte(value, carry)

\* processor::rotate_left: operand.rotate_left(_status.carry);
\* _status.logical(operand).  The rotated byte is the local copy of the
\* operand; the function has no return statement.
rotate_left(st, operand) ==
    LET rotated == rotate_left_byte(operand, st.carry)
    IN  [operand |-> rotated.value,
         status |-> logical([st EXCEPT !.carry = rotated.carry], rotated.value)]

\* processor::rotate_right, likewise.
rotate_right(st, operand) ==
    LET rotated == rotate_right_byte(operand, st.carry)
    IN  [operand |-> rotated.value,
         status |-> logical([st EXCEPT !.carry = rotated.carry], rotated.value)]

\* What the caller of a byte-returning function that returned nothing may
\* get: the byte the function computed (left in the return register), some
\* other byte, or a trap at the end of the function.
Returned(computed) ==
    {[kind |-> "value", value |-> value] :
        value \in UnknownBytes \cup {computed}}
    \cup {[kind |-> "trap", value |-> 0]}

\* rol(): _accumulator = rotate_left(_accumulator).  The carry before the
\* rotate is recorded as the result.
rol ==
    /\ Ready("rol")
    /\ status' = rotate_left(status, accumulator).status
    /\ \E returned \in Returned(rotate_left(status, accumulator).operand) :
            /\ accumulator' = IF returned.kind = "trap" THEN accumulator
                               ELSE returned.value
            /\ Log("rol", accumulator, bool_int(status.carry),
                   Outcome(returned.kind))
    /\ UNCHANGED <<x, y, program_counter, pointer, storage, segments, track>>
    /\ Advance("rol")

\* ror(): _accumulator = rotate_right(_accumulator).
ror ==
    /\ Ready("ror")
    /\ status' = rotate_right(status, accumulator).status
    /\ \E returned \in Returned(rotate_right(status, accumulator).operand) :
            /\ accumulator' = IF returned.kind = "trap" THEN accumulator
                               ELSE returned.value
            /\ Log("ror", accumulator, bool_int(status.carry),
                   Outcome(returned.kind))
    /\ UNCHANGED <<x, y, program_counter, pointer, storage, segments, track>>
    /\ Advance("ror")

\* rol(reference operand): operand = rotate_left(operand): the byte is read
\* through the bus, and the byte returned is written through it.  The
\* address is recorded as the operand.
rol_reference(address) ==
    /\ Ready("rol_reference")
    /\ \E operand \in memory_read(storage, segments, address) :
        \E returned \in Returned(rotate_left(status, operand).operand) :
            LET written == memory_write(storage, segments, address,
                                        returned.value)
            IN  /\ status' = rotate_left(status, operand).status
                /\ storage' = IF returned.kind = "trap" THEN storage
                               ELSE written.storage
                /\ segments' = IF returned.kind = "trap" THEN segments
                                ELSE written.segments
                /\ Log("rol_reference", address, bool_int(status.carry),
                       Outcome(returned.kind))
    /\ UNCHANGED <<accumulator, x, y, program_counter, pointer, track>>
    /\ Advance("rol_reference")

\* ror(reference operand): operand = rotate_right(operand).
ror_reference(address) ==
    /\ Ready("ror_reference")
    /\ \E operand \in memory_read(storage, segments, address) :
        \E returned \in Returned(rotate_right(status, operand).operand) :
            LET written == memory_write(storage, segments, address,
                                        returned.value)
            IN  /\ status' = rotate_right(status, operand).status
                /\ storage' = IF returned.kind = "trap" THEN storage
                               ELSE written.storage
                /\ segments' = IF returned.kind = "trap" THEN segments
                                ELSE written.segments
                /\ Log("ror_reference", address, bool_int(status.carry),
                       Outcome(returned.kind))
    /\ UNCHANGED <<accumulator, x, y, program_counter, pointer, track>>
    /\ Advance("ror_reference")

----------------------------------------------------------------------------
(* class processor: decrement and increment.                               *)

\* processor::decrement: --operand; _status.logical(operand); return
\* operand.  The byte wraps from 0x00 to 0xff.
decrement(st, operand) ==
    [operand |-> to_byte(operand - 1),
     status |-> logical(st, to_byte(operand - 1))]

\* Faulty variant: the increment also sets the carry from the wrap.
increment_with_carry(st, operand) ==
    [operand |-> to_byte(operand + 1),
     status |-> arithmetic(st, operand + 1)]

\* processor::increment: ++operand; _status.logical(operand); return
\* operand.  The byte wraps from 0xff to 0x00.
increment(st, operand) ==
    [operand |-> to_byte(operand + 1),
     status |-> logical(st, to_byte(operand + 1))]

\* dec(reference operand): operand = decrement(operand): the byte is read
\* through the bus and the result written through it.  The address is
\* recorded as the operand and the byte read as the result.
dec(address) ==
    /\ Ready("dec")
    /\ \E operand \in memory_read(storage, segments, address) :
        LET written == memory_write(storage, segments, address,
                                    decrement(status, operand).operand)
        IN  /\ status' = decrement(status, operand).status
            /\ storage' = written.storage
            /\ segments' = written.segments
            /\ Log("dec", address, operand,
                   Forwarded(dispatch(address), address))
    /\ UNCHANGED <<accumulator, x, y, program_counter, pointer, track>>
    /\ Advance("dec")

\* dex(): _x = decrement(_x).
dex ==
    /\ Ready("dex")
    /\ x' = decrement(status, x).operand
    /\ status' = decrement(status, x).status
    /\ UNCHANGED <<accumulator, y, program_counter, pointer, storage,
                   segments, track>>
    /\ Log("dex", x, 0, NoFrame) /\ Advance("dex")

\* dey(): _y = decrement(_y).
dey ==
    /\ Ready("dey")
    /\ y' = decrement(status, y).operand
    /\ status' = decrement(status, y).status
    /\ UNCHANGED <<accumulator, x, program_counter, pointer, storage,
                   segments, track>>
    /\ Log("dey", y, 0, NoFrame) /\ Advance("dey")

\* inc(reference operand): operand = increment(operand).
inc(address) ==
    /\ Ready("inc")
    /\ \E operand \in memory_read(storage, segments, address) :
        LET written == memory_write(storage, segments, address,
                                    increment(status, operand).operand)
        IN  /\ status' = increment(status, operand).status
            /\ storage' = written.storage
            /\ segments' = written.segments
            /\ Log("inc", address, operand,
                   Forwarded(dispatch(address), address))
    /\ UNCHANGED <<accumulator, x, y, program_counter, pointer, track>>
    /\ Advance("inc")

\* inx(): _x = increment(_x).
inx ==
    /\ Ready("inx")
    /\ x' = increment(status, x).operand
    /\ status' = increment(status, x).status
    /\ UNCHANGED <<accumulator, y, program_counter, pointer, storage,
                   segments, track>>
    /\ Log("inx", x, 0, NoFrame) /\ Advance("inx")

\* iny(): _y = increment(_y).
iny ==
    /\ Ready("iny")
    /\ y' = increment(status, y).operand
    /\ status' = increment(status, y).status
    /\ UNCHANGED <<accumulator, x, program_counter, pointer, storage,
                   segments, track>>
    /\ Log("iny", y, 0, NoFrame) /\ Advance("iny")

----------------------------------------------------------------------------
(* class processor: branches and jmp.                                      *)

\* Faulty variant: the branch lands one past the location.
branch_past(location) == to_word(location + 1)

\* processor::branch: _program_counter = location, the pointer's address.
branch(location) == location

\* bcs(location): if (_status.carry) branch(location).  Whether
\* the branch was taken is recorded as the result.
bcs(location) ==
    /\ Ready("bcs")
    /\ program_counter' = IF status.carry THEN branch(location)
                          ELSE program_counter
    /\ UNCHANGED <<accumulator, x, y, status, pointer, storage, segments,
                   track>>
    /\ Log("bcs", location, bool_int(status.carry), NoFrame)
    /\ Advance("bcs")

\* bcc(location): if (!_status.carry) branch(location).  Whether
\* the branch was taken is recorded as the result.
bcc(location) ==
    /\ Ready("bcc")
    /\ program_counter' = IF ~status.carry THEN branch(location)
                          ELSE program_counter
    /\ UNCHANGED <<accumulator, x, y, status, pointer, storage, segments,
                   track>>
    /\ Log("bcc", location, bool_int(~status.carry), NoFrame)
    /\ Advance("bcc")

\* beq(location): if (_status.zero) branch(location).  Whether
\* the branch was taken is recorded as the result.
beq(location) ==
    /\ Ready("beq")
    /\ program_counter' = IF status.zero THEN branch(location)
                          ELSE program_counter
    /\ UNCHANGED <<accumulator, x, y, status, pointer, storage, segments,
                   track>>
    /\ Log("beq", location, bool_int(status.zero), NoFrame)
    /\ Advance("beq")

\* bne(location): if (!_status.zero) branch(location).  Whether
\* the branch was taken is recorded as the result.
bne(location) ==
    /\ Ready("bne")
    /\ program_counter' = IF ~status.zero THEN branch(location)
                          ELSE program_counter
    /\ UNCHANGED <<accumulator, x, y, status, pointer, storage, segments,
                   track>>
    /\ Log("bne", location, bool_int(~status.zero), NoFrame)
    /\ Advance("bne")

\* bmi(location): if (_status.negative) branch(location).  Whether
\* the branch was taken is recorded as the result.
bmi(location) ==
    /\ Ready("bmi")
    /\ program_counter' = IF status.negative THEN branch(location)
                          ELSE program_counter
    /\ UNCHANGED <<accumulator, x, y, status, pointer, storage, segments,
                   track>>
    /\ Log("bmi", location, bool_int(status.negative), NoFrame)
    /\ Advance("bmi")

\* bpl(location): if (!_status.negative) branch(location).  Whether
\* the branch was taken is recorded as the result.
bpl(location) ==
    /\ Ready("bpl")
    /\ program_counter' = IF ~status.negative THEN branch(location)
                          ELSE program_counter
    /\ UNCHANGED <<accumulator, x, y, status, pointer, storage, segments,
                   track>>
    /\ Log("bpl", location, bool_int(~status.negative), NoFrame)
    /\ Advance("bpl")

\* bvs(location): if (_status.overflow) branch(location).  Whether
\* the branch was taken is recorded as the result.
bvs(location) ==
    /\ Ready("bvs")
    /\ program_counter' = IF status.overflow THEN branch(location)
                          ELSE program_counter
    /\ UNCHANGED <<accumulator, x, y, status, pointer, storage, segments,
                   track>>
    /\ Log("bvs", location, bool_int(status.overflow), NoFrame)
    /\ Advance("bvs")

\* bvc(location): if (!_status.overflow) branch(location).  Whether
\* the branch was taken is recorded as the result.
bvc(location) ==
    /\ Ready("bvc")
    /\ program_counter' = IF ~status.overflow THEN branch(location)
                          ELSE program_counter
    /\ UNCHANGED <<accumulator, x, y, status, pointer, storage, segments,
                   track>>
    /\ Log("bvc", location, bool_int(~status.overflow), NoFrame)
    /\ Advance("bvc")

\* jmp(location): branch(location).
jmp(location) ==
    /\ Ready("jmp")
    /\ program_counter' = branch(location)
    /\ UNCHANGED <<accumulator, x, y, status, pointer, storage, segments,
                   track>>
    /\ Log("jmp", location, 1, NoFrame)
    /\ Advance("jmp")

----------------------------------------------------------------------------
(* class cartridge: construction from a rom_file.                          *)

\* Faulty variant: a PRG-ROM of exactly 0x8000 bytes is refused.
cartridge_from_below(file) ==
    IF file.mapper # 0 \/ file.prg_rom >= 32768 \/ file.chr_rom > 8192
    THEN [state |-> "load error", prg_rom |-> 0, chr_rom |-> 0]
    ELSE [state |-> "built", prg_rom |-> file.prg_rom,
          chr_rom |-> file.chr_rom]

\* cartridge(rom_file file): the members are initialised from the file and
\* the body throws std::runtime_error for a mapper other than 0, more than
\* 0x8000 bytes of PRG-ROM or more than 0x2000 bytes of CHR-ROM; an
\* exception leaves no object.  The byte vectors are described by their
\* sizes.
cartridge_from(file) ==
    IF file.mapper # 0 \/ file.prg_rom > 32768 \/ file.chr_rom > 8192
    THEN [state |-> "load error", prg_rom |-> 0, chr_rom |-> 0]
    ELSE [state |-> "built", prg_rom |-> file.prg_rom,
          chr_rom |-> file.chr_rom]

\* A construction cartridge{file}; the mapper number is recorded as the
\* operand.
cartridge_construct ==
    /\ Ready("cartridge")
    /\ segments' = [segments EXCEPT !.cartridge = cartridge_from(segments.file)]
    /\ UNCHANGED <<registers, storage, track>>
    /\ Log("cartridge", segments.file.mapper, 0,
           Outcome(cartridge_from(segments.file).state))
    /\ Advance("cartridge")

\* A call read(address) of the constructed cartridge.
cartridge_read_call(address) ==
    /\ Ready("cartridge_read")
    /\ UNCHANGED <<registers, storage, segments, track>>
    /\ \E value \in rom_read(segments.cartridge.prg_rom, address) :
            Log("cartridge_read", address, value,
                Forwarded("cartridge", address))
    /\ Advance("cartridge_read")

----------------------------------------------------------------------------
(* Reading a ROM file.  The bytes of a file, of a bank and of an input     *)
(* stream are kept as runs: a sequence of records [byte, count], each a    *)
(* byte repeated count times, with no empty run and no two neighbours of   *)
(* the same byte.                                                          *)

\* Number of bytes of a sequence of runs.
RECURSIVE Count(_)
Count(runs) ==
    IF runs = <<>> THEN 0 ELSE Head(runs).count + Count(Tail(runs))

\* The runs with neighbours of the same byte merged.
RECURSIVE joined(_)
joined(runs) ==
    IF Len(runs) < 2 THEN runs
    ELSE IF runs[1].byte = runs[2].byte
         THEN joined(<<[byte |-> runs[1].byte,
                        count |-> runs[1].count + runs[2].count]>>
                     \o SubSeq(runs, 3, Len(runs)))
         ELSE <<runs[1]>> \o joined(Tail(runs))

\* The first count bytes of the runs, and the runs without them.
RECURSIVE take(_, _)
take(runs, count) ==
    IF count = 0 \/ runs = <<>> THEN <<>>
    ELSE IF Head(runs).count <= count
         THEN <<Head(runs)>> \o take(Tail(runs), count - Head(runs).count)
         ELSE <<[Head(runs) EXCEPT !.count = count]>>

RECURSIVE drop(_, _)
drop(runs, count) ==
    IF count = 0 \/ runs = <<>> THEN runs
    ELSE IF Head(runs).count <= count
         THEN drop(Tail(runs), count - Head(runs).count)
         ELSE <<[Head(runs) EXCEPT !.count = @ - count]>> \o Tail(runs)

\* The byte at a position, counted from 0.
byte_at(runs, position) == Head(drop(runs, position)).byte

\* Bytes that operator>> skips before it extracts a character: the
\* white-space characters of the classic locale.
whitespace(value) == value \in {9, 10, 11, 12, 13, 32}

\* What std::istream_iterator<byte> delivers of the bytes of a file: the
\* iterator extracts with operator>>, which for a byte is the extraction
\* of an unsigned char and skips white space, the stream being opened with
\* std::ios::binary or not.
stream(file) ==
    joined(SelectSeq(file, LAMBDA one : ~whitespace(one.byte)))

\* read(file, destination, count): std::copy_n from the stream iterator.
\* When the stream ends early the iterator is dereferenced past its end,
\* and the remaining elements get an unknown byte (fill).
read(input, count, fill) ==
    [taken |-> IF Count(input) < count
               THEN joined(input \o <<[byte |-> fill,
                                       count |-> count - Count(input)]>>)
               ELSE take(input, count),
     rest |-> drop(input, count)]

\* valid_header: the first four bytes are 4e 45 53 1a.
valid_header(header) ==
    /\ byte_at(header, 0) = 78 /\ byte_at(header, 1) = 69
    /\ byte_at(header, 2) = 83 /\ byte_at(header, 3) = 26

\* read_header: sixteen bytes are read, an invalid header throws
\* std::runtime_error, and then the flags, the mapper number and the
\* numbers of banks are taken from bytes 6, 7, 4 and 5.
read_header(input, fill) ==
    LET header == read(input, 16, fill).taken
        flags6 == byte_at(header, 6)
        flags7 == byte_at(header, 7)
    IN  IF ~valid_header(header) THEN [outcome |-> "runtime_error"]
        ELSE [outcome |-> "header",
              vertical_mirroring |-> bit(flags6, 0),
              persistent_memory |-> bit(flags6, 1),
              trainer_present |-> bit(flags6, 2),
              four_screen_vram |-> bit(flags6, 3),
              vs_unisystem |-> bit(flags7, 0),
              playchoice |-> bit(flags7, 1),
              mapper |-> (flags6 \div 16) + (flags7 - (flags7 % 16)),
              prg_rom |-> byte_at(header, 4),
              chr_rom |-> byte_at(header, 5),
              rest |-> read(input, 16, fill).rest]

\* for (auto& bank : banks) read(file, bank, size): the banks in turn.
RECURSIVE read_banks(_, _, _, _)
read_banks(input, banks, size, fill) ==
    IF banks = 0 THEN [banks |-> <<>>, rest |-> input]
    ELSE LET first == read(input, size, fill)
             others == read_banks(first.rest, banks - 1, size, fill)
         IN  [banks |-> <<first.taken>> \o others.banks,
              rest |-> others.rest]

\* read(file, vector, count): destination.reserve(count) and a copy to
\* destination.begin().  The vector keeps its size 0 and the copy writes
\* past its end: the bytes are consumed from the stream and the vector is
\* left empty, or the program stops in a trap (guarded).
read_vector(input, count, fill, guarded) ==
    [outcome |-> IF guarded THEN "trap" ELSE "read",
     vector |-> <<>>,
     rest |-> read(input, count, fill).rest]

\* read_rom(path): std::invalid_argument for a file that does not exist or
\* does not open, the header, and then the trainer if present, the PRG
\* banks, the CHR banks and the PlayChoice data if present.
read_rom(path, fill, guarded) ==
    IF ~path.exists \/ ~path.opens THEN [outcome |-> "invalid_argument"]
    ELSE LET head == read_header(stream(path.file), fill)
         IN  IF head.outcome # "header" THEN [outcome |-> head.outcome]
             ELSE LET trainer ==
                          IF head.trainer_present
                          THEN read_vector(head.rest, 512, fill, guarded)
                          ELSE [outcome |-> "read", vector |-> <<>>,
                                rest |-> head.rest]
                      prg == read_banks(trainer.rest, head.prg_rom, 16384,
                                        fill)
                      chr == read_banks(prg.rest, head.chr_rom, 8192, fill)
                      playchoice ==
                          IF head.playchoice
                          THEN read_vector(chr.rest, 8192, fill, guarded)
                          ELSE [outcome |-> "read", vector |-> <<>>,
                                rest |-> chr.rest]
                 IN  IF trainer.outcome = "trap"
                        \/ playchoice.outcome = "trap"
                     THEN [outcome |-> "trap"]
                     ELSE [outcome |-> "rom_file",
                           mapper |-> head.mapper,
                           trainer_present |-> head.trainer_present,
                           playchoice |-> head.playchoice,
                           trainer |-> trainer.vector,
                           prg_rom |-> prg.banks,
                           chr_rom |-> chr.banks,
                           playchoice_data |-> playchoice.vector]

\* A call read_rom(path).
read_rom_call ==
    /\ Ready("read_rom")
    /\ \E fill \in UnknownBytes, guarded \in BOOLEAN :
        LET result == read_rom(segments.path, fill, guarded)
        IN  /\ segments' = [segments EXCEPT !.rom = result]
            /\ Log("read_rom", 0, 0, Outcome(result.outcome))
    /\ UNCHANGED <<registers, storage, track>>
    /\ Advance("read_rom")

----------------------------------------------------------------------------
(* byte and word values, used directly.                                    *)

\* byte + byte: class byte has no operator+, so each operand is converted
\* by operator value_type to std::uint8_t and promoted to int, and the sum
\* is the int sum.
byte_plus(left, right) == left + right

\* An expression byte{a} + byte{b}, with a in the accumulator and b in X;
\* the sum is recorded as the result.
plus_call ==
    /\ Ready("plus")
    /\ UNCHANGED <<registers, storage, segments, track>>
    /\ Log("plus", accumulator, byte_plus(accumulator, x), NoFrame)
    /\ Advance("plus")

\* The calls w.high() and w.low() of the word in the program counter; the
\* bytes are left in the accumulator and in X.
split_call ==
    /\ Ready("split")
    /\ accumulator' = high(program_counter)
    /\ x' = low(program_counter)
    /\ UNCHANGED <<y, program_counter, status, pointer, storage, segments,
                   track>>
    /\ Log("split", program_counter, 0, NoFrame)
    /\ Advance("split")

\* A construction word{high, low} from the accumulator and X; the word is
\* left in the program counter.
word_call ==
    /\ Ready("word")
    /\ program_counter' = make_word(accumulator, x)
    /\ UNCHANGED <<accumulator, x, y, status, pointer, storage, segments,
                   track>>
    /\ Log("word", accumulator, x, NoFrame)
    /\ Advance("word")

----------------------------------------------------------------------------
(* class reference: words.                                                 *)

\* reference::operator=(word data): _host.write(_address, data.low());
\* _host.write(word{_address + 1}, data.high()).
assign_word(cells, segs, address, data) ==
    LET first == memory_write(cells, segs, address, low(data))
    IN  memory_write(first.storage, first.segments, to_word(address + 1),
                     high(data))

\* An assignment reference{memory, address} = data of a word; the word is
\* recorded as the result.
assign_word_call(address, data) ==
    /\ Ready("assign_word")
    /\ storage' = assign_word(storage, segments, address, data).storage
    /\ segments' = assign_word(storage, segments, address, data).segments
    /\ UNCHANGED <<registers, track>>
    /\ Log("assign_word", address, data, Forwarded(dispatch(address), address))
    /\ Advance("assign_word")

\* A conversion of reference{memory, address} to a word, at the address of
\* the assignment before; the word is recorded as the result.
reference_word_call ==
    /\ Ready("reference_word")
    /\ UNCHANGED <<registers, storage, segments, track>>
    /\ \E value \in reference_word(storage, segments, op.operand) :
            Log("reference_word", op.operand, value,
                Forwarded(dispatch(op.operand), op.operand))
    /\ Advance("reference_word")

----------------------------------------------------------------------------
(* class memory, called directly.                                          *)

\* A call memory.read(address).
memory_read_call(address) ==
    /\ Ready("memory_read")
    /\ UNCHANGED <<registers, storage, segments, track>>
    /\ \E value \in memory_read(storage, segments, address) :
            Log("memory_read", address, value,
                Forwarded(dispatch(address), address))
    /\ Advance("memory_read")

\* A call memory.write(address, data); the byte written is recorded as the
\* result.
memory_write_call(address, data) ==
    /\ Ready("memory_write")
    /\ storage' = memory_write(storage, segments, address, data).storage
    /\ segments' = memory_write(storage, segments, address, data).segments
    /\ UNCHANGED <<registers, track>>
    /\ Log("memory_write", address, data, Forwarded(dispatch(address), address))
    /\ Advance("memory_write")

\* Locations of the segment a call of map() may seem to return when it
\* returned nothing.
UnknownLocations == {0, 8192}

\* A call memory.map(address) of the earlier bus.  Leaving the function
\* without a return is undefined: the caller gets a segment with any
\* location, or the program stops in a trap.
map_call(address) ==
    /\ Ready("map")
    /\ UNCHANGED <<registers, storage, segments, track>>
    /\ \E result \in
            (IF map(address).outcome = "segment" THEN {map(address)}
             ELSE {[outcome |-> "undefined", location |-> location] :
                      location \in UnknownLocations}
                  \cup {[outcome |-> "trap", location |-> 0]}) :
            Log("map", address, result.location,
                Forwarded(result.outcome, address))
    /\ Advance("map")

----------------------------------------------------------------------------
(* Specifications.                                                         *)

\* processor(ram) leaves status 0x24, registers 0, program counter 0xfffd
\* and stack pointer 0xff, and RAM is zero; the runs below start from that
\* state with the registers their comments name loaded.
Started(mode) ==
    /\ op = [name |-> "init", operand |-> 0, result |-> 0, frame |-> NoFrame]
    /\ pre = [accumulator |-> accumulator, x |-> x, y |-> y,
              program_counter |-> program_counter, status |-> status,
              pointer |-> pointer, segments |-> segments,
              op |-> [name |-> "init", operand |-> 0, result |-> 0]]
    /\ track = <<>>
    /\ run = [mode |-> mode, steps |-> 0, phase |-> "push"]

\* Index register contents the arithmetic runs start from.
IndexValues == {<<0, 255>>, <<128, 127>>}

\* One arithmetic, bitwise or compare instruction on any operand byte, from
\* every accumulator value and carry (as lda and sec/clc leave them) and a
\* few values of X and Y (as ldx and ldy leave them).
InitAlu ==
    /\ accumulator \in Byte
    /\ \E xy \in IndexValues : x = xy[1] /\ y = xy[2]
    /\ program_counter = 65533
    /\ \E c \in BOOLEAN : status = [status_from(36) EXCEPT !.carry = c]
    /\ pointer = 255
    /\ storage = <<>>
    /\ segments = Bus
    /\ Started("single")

\* The operand bytes the driver offers an instruction: every byte when the
\* instruction is ready, none otherwise.
Operands(name) == IF Ready(name) THEN Byte ELSE {}

NextAlu ==
    \/ \E operand \in Operands("adc") : adc(operand)
    \/ \E operand \in Operands("sbc") : sbc(operand)
    \/ asl
    \/ lsr
    \/ \E operand \in Operands("bit") : bit_instruction(operand)
    \/ \E operand \in Operands("cmp") : cmp(operand)
    \/ \E operand \in Operands("cpx") : cpx(operand)
    \/ \E operand \in Operands("cpy") : cpy(operand)
    \/ \E right \in Operands("overflows") : overflows_call(accumulator, right)

SpecAlu == InitAlu /\ [][NextAlu]_vars

\* Stack pointers the stack runs start from (as ldx and txs leave them):
\* the constructed 0xff and the two values next to the wrap.
StartPointers == {255, 0, 1}

\* Bytes pushed by the free runs.
PushValues == {0, 165}

\* The byte pushed at position n of a fill run: no two pushes that are 256
\* apart carry the same byte.
FillValue(n) == (n % 255) + 1

\* Calls of the stack object: any sequence of push, pull and peek up to
\* MaxCalls, or up to MaxDepth pushes followed by as many pulls.
InitStack ==
    /\ accumulator = 0 /\ x = 0 /\ y = 0
    /\ program_counter = 65533
    /\ status = status_from(36)
    /\ pointer \in StartPointers
    /\ storage = <<>>
    /\ segments = Bus
    /\ \E mode \in {"calls", "fill"} : Started(mode)

NextStack ==
    \/ \E value \in (IF run.mode = "fill" THEN {FillValue(run.steps)}
                      ELSE PushValues) : stack_push(value)
    \/ stack_pull
    \/ stack_peek

SpecStack == InitStack /\ [][NextStack]_vars

\* Program counters the call runs start from: just after a three-byte
\* instruction at 0x8000, and 0x0000, whose predecessor wraps to 0xffff.
StartCounters == {32771, 0}

\* Subroutine addresses of the call runs.
Targets == {49152, 0}

\* Stack and subroutine instructions: any sequence up to MaxSteps, or one
\* call holding up to MaxDepth pha and as many pla before its rts.  The
\* accumulator holds 0xa5, as lda leaves it.
InitCall ==
    /\ accumulator = 165 /\ x = 0 /\ y = 0
    /\ program_counter \in StartCounters
    /\ status = status_from(36)
    /\ pointer \in StartPointers
    /\ storage = <<>>
    /\ segments = Bus
    /\ \E mode \in {"free", "nest"} : Started(mode)

NextCall ==
    \/ \E location \in Targets : jsr(location)
    \/ rts
    \/ pha
    \/ pla
    \/ php
    \/ plp

SpecCall == InitCall /\ [][NextCall]_vars

\* Every combination of the six flags.
AllStatus == {status_from(other) : other \in Byte}

\* One use of the status byte from every combination of the six flags: a
\* value taken, a byte assigned, a value taken and assigned back (any byte
\* may be assigned instead), or php followed by plp.
InitStatus ==
    /\ accumulator = 0 /\ x = 0 /\ y = 0
    /\ program_counter = 65533
    /\ status \in AllStatus
    /\ pointer \in StartPointers
    /\ storage = <<>>
    /\ segments = Bus
    /\ Started("flags")

NextStatus ==
    \/ instruction_value_call
    \/ interrupt_value_call
    \/ \E other \in Operands("assign") : status_assign(other)
    \/ php
    \/ plp

SpecStatus == InitStatus /\ [][NextStatus]_vars

\* The segment types of the program: the RAM of the cpu and of the bus, the
\* register block of the bus, and the two segments of main().
SegmentTypes ==
    {CpuRam,
     Segment("memory::random_access_memory", 2048, 0, 16384),
     Registers,
     Segment("segment1", 512, 0, 1024),
     Segment("segment2", 256, 1024, 2048)}

Address == 0 .. (WordModulus - 1)

\* The addresses a segment run reads and writes: the ends of the window and
\* of its first and second copy of the storage, and 0xff into each; none
\* below the window.
Probes(seg) ==
    {address \in {seg.begin, seg.begin + 255, seg.begin + seg.size - 1,
                  seg.begin + seg.size, seg.begin + seg.size + 255,
                  seg.end - 1, seg.end} : address \in Address}

\* Bytes a segment run writes.
WriteValues == {254, 90}

\* The addresses and bytes the driver offers a call of the segment.
Addresses(name) ==
    IF ~Ready(name) THEN {}
    ELSE IF name \in {"contains", "view_contains"} THEN Address
    ELSE Probes(segment)

Values(name) == IF Ready(name) THEN WriteValues ELSE {}

\* One use of a segment of each type: a contains of any address, or one or
\* two writes and then a read, made on the segment or through its view.
InitSegment ==
    /\ accumulator = 0 /\ x = 0 /\ y = 0
    /\ program_counter = 65533
    /\ status = status_from(36)
    /\ pointer = 255
    /\ storage = <<>>
    /\ \E seg \in SegmentTypes : segments = [segment |-> seg]
    /\ Started("segment")

NextSegment ==
    \/ \E address \in Addresses("contains") : contains_call(address)
    \/ \E address \in Addresses("segment_write"),
          data \in Values("segment_write") : segment_write_call(address, data)
    \/ \E address \in Addresses("segment_read") : segment_read_call(address)
    \/ \E address \in Addresses("view_write"),
          data \in Values("view_write") : view_write_call(address, data)
    \/ \E address \in Addresses("view_read") : view_read_call(address)

SpecSegment == InitSegment /\ [][NextSegment]_vars

\* One call of the bus at any address.
InitBus ==
    /\ accumulator = 0 /\ x = 0 /\ y = 0
    /\ program_counter = 65533
    /\ status = status_from(36)
    /\ pointer = 255
    /\ storage = <<>>
    /\ segments = Bus
    /\ Started("bus")

\* The addresses the driver offers a call of the bus.
BusAddresses(name) == IF Ready(name) THEN Address ELSE {}

NextBus ==
    \/ \E address \in BusAddresses("memory_read") : memory_read_call(address)
    \/ \E address \in BusAddresses("memory_write"), data \in WriteValues :
            memory_write_call(address, data)
    \/ \E address \in BusAddresses("map") : map_call(address)

SpecBus == InitBus /\ [][NextBus]_vars

\* Addresses of the vectors the break runs use: 0x0010 in RAM, and the
\* non-maskable-interrupt and interrupt vectors 0xFFFA and 0xFFFE in the
\* cartridge.
Vectors == {16, 65530, 65534}

\* RAM that holds the bytes 0x34 and 0x12 at 0x0010 and 0x0011, as sta leaves
\* them, and zero elsewhere.
VectorRam == write_cell(write_cell(<<>>, ram_cell(16), 52), ram_cell(17), 18)

\* A break and the return from it, from every combination of the flags and
\* every stack pointer.
InitBreak ==
    /\ accumulator = 0 /\ x = 0 /\ y = 0
    /\ program_counter \in StartCounters
    /\ status \in AllStatus
    /\ pointer \in Byte
    /\ storage = VectorRam
    /\ segments = Bus
    /\ Started("break")

NextBreak ==
    \/ \E vector \in Vectors : brk(vector)
    \/ rti

SpecBreak == InitBreak /\ [][NextBreak]_vars

\* Flag combinations the load and transfer runs start from: none set, the
\* constructed 0x24, zero and overflow, carry and negative, all six.
FrameStatus == {status_from(other) : other \in {0, 36, 66, 129, 255}}

\* Register contents of the load and transfer runs: four different bytes,
\* each register taking every byte over the runs.
Loaded(value) ==
    /\ accumulator = value
    /\ x = to_byte(value + 85)
    /\ y = to_byte(value + 170)
    /\ pointer = to_byte(value + 51)

\* Addresses the stores reference: in RAM (zero page, stack page, the last
\* cell, the first mirror, the last address), in the graphics registers,
\* in the I/O registers and in the cartridge.
StoreAddresses ==
    {0, 255, 511, 2047, 2048, 8191, 8192, 16384, 16415, 16416, 65534}

\* Register contents of the load and store runs.
StoreValues == {0, 1, 127, 128, 255}

\* One transfer from every register content, or one load of any operand or
\* one store.
InitMove ==
    /\ program_counter = 65533
    /\ storage = <<>>
    /\ segments = Bus
    /\ \/ /\ \E value \in Byte : Loaded(value)
          /\ status \in FrameStatus
          /\ Started("transfer")
       \/ /\ \E value \in StoreValues : Loaded(value)
          /\ status \in AllStatus
          /\ Started("load")

NextMove ==
    \/ \E operand \in Operands("lda") : lda(operand)
    \/ \E operand \in Operands("ldx") : ldx(operand)
    \/ \E operand \in Operands("ldy") : ldy(operand)
    \/ \E address \in StoreAddresses : sta(address)
    \/ \E address \in StoreAddresses : stx(address)
    \/ \E address \in StoreAddresses : sty(address)
    \/ tax
    \/ tay
    \/ tsx
    \/ txa
    \/ txs
    \/ tya

SpecMove == InitMove /\ [][NextMove]_vars

\* Addresses the rotates of a memory cell reference: the RAM cell 0x0010.
RotateAddresses == {16}

\* One rotate, or two, of the accumulator from every byte and carry, or of
\* the RAM cell 0x0010, which holds 0x34.
InitRotate ==
    /\ accumulator \in Byte /\ x = 0 /\ y = 0
    /\ program_counter = 65533
    /\ \E c \in BOOLEAN : status = [status_from(36) EXCEPT !.carry = c]
    /\ pointer = 255
    /\ storage = VectorRam
    /\ segments = Bus
    /\ Started("rotate")

NextRotate ==
    \/ rol
    \/ ror
    \/ \E address \in RotateAddresses : rol_reference(address)
    \/ \E address \in RotateAddresses : ror_reference(address)

SpecRotate == InitRotate /\ [][NextRotate]_vars

\* Addresses the increments and decrements of a memory cell reference: the
\* RAM cell 0x0010, its mirror 0x0810 and the I/O register 0x4000.
StepAddresses == {16, 2064, 16384}

\* One increment or decrement of X, of Y or of a memory cell, from every
\* byte in each: X holds v + 85, Y v + 170, the RAM cell 0x0010 v + 119 and
\* the I/O register 0x4000 v + 34 (mod 256).
InitStep ==
    /\ \E value \in Byte :
        /\ Loaded(value)
        /\ storage = write_cell(<<>>, ram_cell(16), to_byte(value + 119))
        /\ segments = [registers |->
                [Registers EXCEPT !.storage =
                    write_cell(<<>>, 0, to_byte(value + 34))]]
    /\ program_counter = 65533
    /\ status \in FrameStatus
    /\ Started("step")

NextStep ==
    \/ \E address \in StepAddresses : dec(address)
    \/ dex
    \/ dey
    \/ \E address \in StepAddresses : inc(address)
    \/ inx
    \/ iny

SpecStep == InitStep /\ [][NextStep]_vars

\* Locations the branches and jmp are given: the first and the last
\* address, a cartridge address, and the program counter the run may start
\* from.
Locations(name) == IF Ready(name) THEN {0, 32771, 49152, 65535} ELSE {}

\* One branch or jmp from every combination of the flags, with 0x34 in the
\* RAM cell 0x0010.
InitBranch ==
    /\ \E value \in StoreValues : Loaded(value)
    /\ program_counter \in StartCounters
    /\ status \in AllStatus
    /\ storage = VectorRam
    /\ segments = Bus
    /\ Started("branch")

NextBranch ==
    \/ \E location \in Locations("bcs") : bcs(location)
    \/ \E location \in Locations("bcc") : bcc(location)
    \/ \E location \in Locations("beq") : beq(location)
    \/ \E location \in Locations("bne") : bne(location)
    \/ \E location \in Locations("bmi") : bmi(location)
    \/ \E location \in Locations("bpl") : bpl(location)
    \/ \E location \in Locations("bvs") : bvs(location)
    \/ \E location \in Locations("bvc") : bvc(location)
    \/ \E location \in Locations("jmp") : jmp(location)

SpecBranch == InitBranch /\ [][NextBranch]_vars

\* Mapper numbers, PRG-ROM sizes (zero to three banks of 16 KB) and CHR-ROM
\* sizes (zero to two banks of 8 KB) of the rom_files a cartridge is
\* constructed from.
Mappers == {0, 1, 2, 4, 16, 255}

PrgSizes == {0, 16384, 32768, 49152}

ChrSizes == {0, 8192, 16384}

\* Addresses read from a constructed cartridge.
CartridgeAddresses(name) ==
    IF Ready(name) THEN {32768, 32769, 49151, 49152, 49153, 65535} ELSE {}

\* One construction of a cartridge from a rom_file, and one read if it was
\* constructed.
InitCartridge ==
    /\ accumulator = 0 /\ x = 0 /\ y = 0
    /\ program_counter = 65533
    /\ status = status_from(36)
    /\ pointer = 255
    /\ storage = <<>>
    /\ \E mapper \in Mappers, prg \in PrgSizes, chr \in ChrSizes :
            segments = [file |-> [mapper |-> mapper, prg_rom |-> prg,
                                  chr_rom |-> chr],
                        cartridge |-> [state |-> "none", prg_rom |-> 0,
                                       chr_rom |-> 0]]
    /\ Started("cartridge")

NextCartridge ==
    \/ cartridge_construct
    \/ \E address \in CartridgeAddresses("cartridge_read") :
            cartridge_read_call(address)

SpecCartridge == InitCartridge /\ [][NextCartridge]_vars

\* The files read: sixteen bytes of header (the first and the fourth byte
\* right or wrong, a number of PRG banks, of CHR banks, flags 6 and 7 and
\* eight zeroes), after any bytes put in front of it, and then what the
\* header announces: 512 bytes 0xa0 of trainer, PRG banks of 0x10, 0x11,
\* ..., CHR banks of 0xc0, 0xc1, ... and 8 KB 0xe0 of PlayChoice data.
\* The fourth byte of the first PRG bank is the opcode given.
RECURSIVE Banks(_, _, _)
Banks(banks, first, size) ==
    IF banks = 0 THEN <<>>
    ELSE <<[byte |-> first, count |-> size]>>
         \o Banks(banks - 1, first + 1, size)

RomImage(front, magic, prg, chr, flags6, flags7, opcode) ==
    joined(front
           \o <<[byte |-> magic[1], count |-> 1], [byte |-> 69, count |-> 1],
                [byte |-> 83, count |-> 1], [byte |-> magic[2], count |-> 1],
                [byte |-> prg, count |-> 1], [byte |-> chr, count |-> 1],
                [byte |-> flags6, count |-> 1],
                [byte |-> flags7, count |-> 1], [byte |-> 0, count |-> 8]>>
           \o (IF bit(flags6, 2) THEN <<[byte |-> 160, count |-> 512]>>
               ELSE <<>>)
           \o (IF prg = 0 THEN <<>>
               ELSE <<[byte |-> 16, count |-> 3],
                      [byte |-> opcode, count |-> 1],
                      [byte |-> 16, count |-> 16380]>>
                    \o Banks(prg - 1, 17, 16384))
           \o Banks(chr, 192, 8192)
           \o (IF bit(flags7, 1) THEN <<[byte |-> 224, count |-> 8192]>>
               ELSE <<>>))

\* Bytes in front of the header: none, or one space.
Fronts == {<<>>, <<[byte |-> 32, count |-> 1]>>}

\* First and fourth byte of the header: 4e and 1a, or one of them wrong.
Magics == {<<78, 26>>, <<77, 26>>, <<78, 27>>}

\* Numbers of PRG banks and of CHR banks in the header.
PrgBanks == {0, 1, 2, 9}

ChrBanks == {0, 1, 2}

\* Flags 6: none, trainer present, mapper 1.  Flags 7: none, PlayChoice.
Flags6 == {0, 4, 16}

Flags7 == {0, 2}

\* The fourth byte of the first PRG bank: as the rest of the bank, or the
\* opcode 0x20.
Opcodes == {16, 32}

\* One call of read_rom on a path that does not exist, does not open, or
\* holds one of the files above.
InitRom ==
    /\ accumulator = 0 /\ x = 0 /\ y = 0
    /\ program_counter = 65533
    /\ status = status_from(36)
    /\ pointer = 255
    /\ storage = <<>>
    /\ \E front \in Fronts, magic \in Magics, prg \in PrgBanks,
          chr \in ChrBanks, flags6 \in Flags6, flags7 \in Flags7,
          opcode \in Opcodes, exists \in BOOLEAN, opens \in BOOLEAN :
            /\ opens => exists
            /\ segments =
                 [path |-> [exists |-> exists, opens |-> opens,
                            file |-> RomImage(front, magic, prg, chr, flags6,
                                              flags7, opcode)],
                  rom |-> [outcome |-> "none"]]
    /\ Started("rom")

NextRom == read_rom_call

SpecRom == InitRom /\ [][NextRom]_vars

\* One sum of two bytes, for every pair of bytes, or the split of a word
\* into its bytes and the word made of them again, for every word.
InitValue ==
    /\ y = 0
    /\ status = status_from(36)
    /\ pointer = 255
    /\ storage = <<>>
    /\ segments = Bus
    /\ \/ /\ accumulator \in Byte /\ x \in Byte
          /\ program_counter = 65533
          /\ Started("sum")
       \/ /\ accumulator = 0 /\ x = 0
          /\ program_counter \in Address
          /\ Started("word")

NextValue ==
    \/ plus_call
    \/ split_call
    \/ word_call

SpecValue == InitValue /\ [][NextValue]_vars

\* Addresses of the references to words: in RAM (the first cells, the end
\* of the zero page, the last cell and its mirror, the last address of the
\* range), in the I/O registers and in the cartridge.
WordAddresses(name) ==
    IF Ready(name)
    THEN {0, 16, 255, 2047, 4095, 8190, 8191, 16384, 16414, 32768, 65534}
    ELSE {}

\* Words assigned: with different and with equal bytes.
Words == {0, 1, 255, 256, 4660, 13330, 32896, 43981, 52651, 65280, 65535}

\* One assignment of a word through a reference and its conversion back.
InitReference ==
    /\ accumulator = 0 /\ x = 0 /\ y = 0
    /\ program_counter = 65533
    /\ status = status_from(36)
    /\ pointer = 255
    /\ storage = <<>>
    /\ segments = Bus
    /\ Started("reference")

NextReference ==
    \/ \E address \in WordAddresses("assign_word"), data \in Words :
            assign_word_call(address, data)
    \/ reference_word_call

SpecReference == InitReference /\ [][NextReference]_vars

\* One use of the view of a segment of each type: a contains of any
\* address, or a read after a write to the segment.
InitView ==
    /\ accumulator = 0 /\ x = 0 /\ y = 0
    /\ program_counter = 65533
    /\ status = status_from(36)
    /\ pointer = 255
    /\ storage = <<>>
    /\ \E seg \in SegmentTypes : segments = [segment |-> seg]
    /\ Started("view")

NextView ==
    \/ \E address \in Addresses("view_contains") : view_contains_call(address)
    \/ \E address \in Addresses("segment_write"),
          data \in Values("segment_write") : segment_write_call(address, data)
    \/ \E address \in Addresses("view_read") : view_read_call(address)

SpecView == InitView /\ [][NextView]_vars

\* The whole model: every run of the families above.
Init ==
    \/ InitAlu \/ InitStack \/ InitCall \/ InitStatus \/ InitSegment
    \/ InitBus \/ InitBreak \/ InitMove \/ InitRotate \/ InitStep
    \/ InitBranch \/ InitCartridge \/ InitRom \/ InitValue \/ InitReference
    \/ InitView

Next ==
    \/ NextAlu \/ NextStack \/ NextCall \/ NextStatus \/ NextSegment
    \/ NextBus \/ NextBreak \/ NextMove \/ NextRotate \/ NextStep
    \/ NextBranch \/ NextCartridge \/ NextRom \/ NextValue \/ NextReference
    \/ NextView

Spec == Init /\ [][Next]_vars

----------------------------------------------------------------------------
(* Claims about the arithmetic, bitwise and compare instructions.          *)

\* Value of a byte read as a two's-complement number.
Signed(value) == IF value >= 128 THEN value - 256 ELSE value

\* C1: after adc with accumulator A, operand M and carry-in C, the
\* accumulator is (A + M + C) mod 256, carry is (A + M + C > 0xFF), zero and
\* negative describe the new accumulator, and overflow is set exactly when A
\* and M have the same bit 7 and the new accumulator's bit 7 differs from it.
C1_AdcResult ==
    op.name = "adc" =>
        LET A == pre.accumulator
            M == op.operand
            sum == A + M + bool_int(pre.status.carry)
        IN  /\ accumulator = sum % 256
            /\ status.carry = (sum > 255)
            /\ status.zero = (accumulator = 0)
            /\ status.negative = (accumulator >= 128)
            /\ status.overflow = /\ (A >= 128) = (M >= 128)
                                 /\ (accumulator >= 128) # (A >= 128)

\* C1 witness: 0x50 + 0x50 with carry clear has given 0xA0 with carry clear,
\* overflow set, negative set, zero clear.
C1_AdcWitness ==
    /\ op.name = "adc" /\ pre.accumulator = 80 /\ op.operand = 80
    /\ ~pre.status.carry
    /\ accumulator = 160 /\ ~status.carry /\ status.overflow
    /\ status.negative /\ ~status.zero

\* C2: the free function overflows(a, b) is true exactly when a and b have
\* the same bit 7 and bit 7 of (a + b) mod 256 differs from it, and so agrees
\* with status::overflows(a, b, a + b).
C2_FreeOverflowsIsSignedOverflow ==
    op.name = "overflows" =>
        LET a == pre.accumulator
            b == op.operand
            r == (a + b) % 256
        IN  /\ (op.result = 1) = /\ (a >= 128) = (b >= 128)
                                 /\ (r >= 128) # (a >= 128)
            /\ (op.result = 1) = overflows(status, a, b, a + b).overflow

\* C3: compare of register L with operand R sets carry iff L >= R, zero iff
\* L = R, negative to bit 7 of (L - R) mod 256, and leaves the accumulator,
\* X, Y and the other flags unchanged.
C3_CompareFlags ==
    op.name \in {"cmp", "cpx", "cpy"} =>
        LET L == CASE op.name = "cmp" -> pre.accumulator
                   [] op.name = "cpx" -> pre.x
                   [] op.name = "cpy" -> pre.y
            R == op.operand
        IN  /\ status.carry = (L >= R)
            /\ status.zero = (L = R)
            /\ status.negative = (((L - R) % 256) >= 128)
            /\ accumulator = pre.accumulator /\ x = pre.x /\ y = pre.y
            /\ status.overflow = pre.status.overflow
            /\ status.decimal = pre.status.decimal
            /\ status.interrupt_disable = pre.status.interrupt_disable

\* C4: bit with accumulator A and operand M sets zero iff (A AND M) = 0,
\* overflow to bit 6 of M, negative to bit 7 of M, and leaves the accumulator
\* and the carry flag unchanged.
C4_BitTestFlags ==
    op.name = "bit" =>
        LET A == pre.accumulator
            M == op.operand
        IN  /\ status.zero = (bit_and(A, M) = 0)
            /\ status.overflow = ((M \div 64) % 2 = 1)
            /\ status.negative = (M >= 128)
            /\ accumulator = A
            /\ status.carry = pre.status.carry

\* C5: after asl of v the carry flag is the old bit 7 of v and the result is
\* (v << 1) mod 256; after lsr the carry flag is the old bit 0 of v and the
\* result is v >> 1; zero and negative describe the shifted result.
C5_ShiftCarry ==
    op.name \in {"asl", "lsr"} =>
        LET v == op.operand
        IN  /\ op.name = "asl" => /\ accumulator = (v * 2) % 256
                                  /\ status.carry = (v >= 128)
            /\ op.name = "lsr" => /\ accumulator = v \div 2
                                  /\ status.carry = (v % 2 = 1)
            /\ status.zero = (accumulator = 0)
            /\ status.negative = (accumulator >= 128)

----------------------------------------------------------------------------
(* Claims about the stack.                                                 *)

\* C8: each push writes at 0x0100 + pointer and then decrements the pointer,
\* each pull increments first and then reads, the pointer wraps 0x00 -> 0xFF
\* on push and 0xFF -> 0x00 on pull, and a pull that matches a push with at
\* most 256 bytes held in between (k pushes followed by k pulls, k <= 256)
\* returns the byte of that push and puts the pointer back where that push
\* found it.
C8_StackLifo ==
    /\ op.name = "push" =>
            /\ read_cell(storage, pre.pointer) = op.operand
            /\ StackBase + pre.pointer \in 256 .. 511
            /\ pointer = (IF pre.pointer = 0 THEN 255 ELSE pre.pointer - 1)
    /\ op.name = "pull" =>
            /\ pointer = (IF pre.pointer = 255 THEN 0 ELSE pre.pointer + 1)
            /\ op.result = read_cell(storage, pointer)
    /\ (op.name = "pull" /\ op.frame.kind = "byte"
        /\ op.frame.peak - op.frame.base <= 256) =>
            /\ op.result = op.frame.value
            /\ pointer = op.frame.at

\* C8 witness: the last pull of 256 pushes followed by 256 pulls has
\* returned the first byte pushed.
C8_FullWindowWitness ==
    /\ op.name = "pull" /\ op.frame.kind = "byte"
    /\ op.frame.base = 0 /\ op.frame.peak = 256
    /\ op.result = op.frame.value /\ op.result # 0
    /\ pointer = op.frame.at

\* C7 as stated: jsr with program counter p and stack pointer s pushes the
\* word (p - 1) mod 65536 and sets the program counter to the target, and
\* an rts reached after any stack operations in which every push is matched
\* by a pull sets the program counter back to p and the pointer back to s.
C7_ReturnAfterAnyMatched ==
    /\ op.name = "jsr" =>
            /\ program_counter = op.operand
            /\ pull_word(stack).value = (pre.program_counter - 1) % 65536
            /\ pointer = (pre.pointer - 2) % 256
    /\ (op.name = "rts" /\ op.frame.kind = "call") =>
            /\ program_counter = op.frame.value
            /\ pointer = op.frame.at

\* C7 amended: the same, for an rts whose call never had more than 254
\* bytes held above its return address (with that address, at most 256).
C7_ReturnWithinWindow ==
    /\ op.name = "jsr" =>
            /\ program_counter = op.operand
            /\ pull_word(stack).value = (pre.program_counter - 1) % 65536
            /\ pointer = (pre.pointer - 2) % 256
    /\ (op.name = "rts" /\ op.frame.kind = "call"
        /\ op.frame.peak - op.frame.base <= 256) =>
            /\ program_counter = op.frame.value
            /\ pointer = op.frame.at

\* C7 witness: a call made at 0x8003, with 254 bytes pushed and pulled
\* inside it, has returned to 0x8003.
C7_ReturnWitness ==
    /\ op.name = "rts" /\ op.frame.kind = "call"
    /\ op.frame.value = 32771 /\ op.frame.peak - op.frame.base = 256
    /\ program_counter = 32771 /\ pointer = op.frame.at

\* C9: push(w) with the pointer at s writes the high byte at 0x0100 + s and
\* the low byte at 0x0100 + ((s - 1) mod 256), and an immediately following
\* pull_word() returns w and restores the pointer to s.
C9_WordRoundTrip ==
    /\ op.name = "jsr" =>
            LET w == (pre.program_counter - 1) % 65536
                s == pre.pointer
            IN  /\ read_cell(storage, s) = w \div 256
                /\ read_cell(storage, (s - 1) % 256) = w % 256
                /\ pull_word(stack).value = w
                /\ pull_word(stack).stack.pointer = s
    /\ (op.name = "rts" /\ op.frame.kind = "call"
        /\ op.frame.peak - op.frame.base = 2) =>
            /\ op.result = (op.frame.value - 1) % 65536
            /\ pointer = op.frame.at

\* C9 witness: the word 0x8002 was pushed with the pointer at 0x00, so its
\* high byte is at 0x0100 and its low byte at 0x01ff, and the pull_word()
\* right after it has returned 0x8002 with the pointer back at 0x00.
C9_WrapWitness ==
    /\ op.name = "rts" /\ op.frame.kind = "call"
    /\ op.frame.peak - op.frame.base = 2
    /\ op.frame.at = 0 /\ op.result = 32770 /\ pointer = 0
    /\ read_cell(storage, 0) = 128 /\ read_cell(storage, 255) = 2

\* C10: for every stack pointer value, 0xFF included, peek() returns the
\* byte an immediately following pull() would return, reads only inside
\* 0x0100..0x01FF, and leaves the pointer unchanged.
C10_PeekMatchesPull ==
    op.name = "peek" =>
        /\ op.result = pull(stack).value
        /\ StackBase + op.operand \in 256 .. 511
        /\ pointer = pre.pointer

----------------------------------------------------------------------------
(* Claims about the status byte.                                           *)

\* The six flags a byte carries at bits 0, 1, 2, 3, 6, 7.
FlagsOf(b) ==
    [carry |-> b % 2 = 1, zero |-> (b \div 2) % 2 = 1,
     interrupt_disable |-> (b \div 4) % 2 = 1, decimal |-> (b \div 8) % 2 = 1,
     overflow |-> (b \div 64) % 2 = 1, negative |-> (b \div 128) % 2 = 1]

\* The bytes that differ from b in bits 4 and 5 at most.
SameFlagBits(b) ==
    {other \in Byte : /\ other % 16 = b % 16
                       /\ other \div 64 = b \div 64}

\* C11: for every combination f of the six flags, assigning the byte
\* f.instruction_value() or f.interrupt_value() back to a status gives f
\* again, also through php followed by plp; and the flags restored from any
\* byte b are those at bits 0, 1, 2, 3, 6, 7 of b, so every byte that differs
\* from b only in bits 4 and 5 restores the same flags.
C11_StatusRoundTrip ==
    /\ (op.name = "assign"
        /\ pre.op.name \in {"instruction_value", "interrupt_value"}
        /\ op.operand = pre.op.result) => status = pre.status
    /\ (op.name = "plp" /\ pre.op.name = "php") => status = pre.status
    /\ op.name \in {"assign", "plp"} =>
            LET b == IF op.name = "assign" THEN op.operand ELSE op.result
            IN  /\ status = FlagsOf(b)
                /\ \A other \in SameFlagBits(b) : status_from(other) = status

\* C11 witness: the flags carry, decimal and negative (and no other) gave
\* the instruction value 0xB9, and assigning 0xB9 has restored them.
C11_RoundTripWitness ==
    /\ op.name = "assign" /\ pre.op.name = "instruction_value"
    /\ op.operand = 185 /\ pre.op.result = 185
    /\ status = FlagsOf(137) /\ status = pre.status

\* C12: for every flag combination, instruction_value() has bits 5 and 4
\* set, interrupt_value() has bit 5 set and bit 4 clear, and in both the
\* bits 0, 1, 2, 3, 6, 7 are carry, zero, interrupt-disable, decimal,
\* overflow, negative; the two values differ in bit 4 only.
C12_PushedValues ==
    op.name \in {"instruction_value", "interrupt_value"} =>
        LET v == op.result
            flags == bool_int(status.carry) + 2 * bool_int(status.zero)
                     + 4 * bool_int(status.interrupt_disable)
                     + 8 * bool_int(status.decimal)
                     + 64 * bool_int(status.overflow)
                     + 128 * bool_int(status.negative)
        IN  /\ v \in Byte
            /\ (v \div 32) % 2 = 1
            /\ (v \div 16) % 2 = (IF op.name = "instruction_value" THEN 1 ELSE 0)
            /\ v - 32 - 16 * ((v \div 16) % 2) = flags
            /\ instruction_value(status) - interrupt_value(status) = 16

\* C12 witness: with only zero and overflow set, interrupt_value() has
\* returned 0x62.
C12_InterruptValueWitness ==
    /\ op.name = "interrupt_value" /\ op.result = 98
    /\ status = FlagsOf(66)

----------------------------------------------------------------------------
(* Claims about the memory segments.                                       *)

\* The addresses of a segment's window.
Window(seg) == seg.begin .. (seg.end - 1)

\* The position of an address in the backing storage of its segment.
Residue(seg, address) == (address - seg.begin) % seg.size

\* C14: for a segment whose backing storage is smaller than its address
\* window, after a write of byte d at an address a of the window, a read at
\* any address a' of the window with (a' - base) mod backing_size equal to
\* (a - base) mod backing_size returns d, and a read at an address with a
\* different residue returns what it returned before the write; the same
\* through the segment's view.
C14_Mirroring ==
    LET seg == segments.segment
        before == pre.segments.segment
    IN  /\ (op.name \in SegmentWrites /\ seg.size < seg.end - seg.begin
            /\ op.operand \in Window(seg)) =>
                \A other \in Window(seg) :
                    /\ segment_read(seg, other) =
                          IF Residue(seg, other) = Residue(seg, op.operand)
                          THEN op.result ELSE segment_read(before, other)
                    /\ view_read(view(seg), other) = segment_read(seg, other)
        /\ (op.name \in SegmentReads /\ pre.op.name \in SegmentWrites
            /\ seg.size < seg.end - seg.begin
            /\ op.operand \in Window(seg) /\ pre.op.operand \in Window(seg)
            /\ Residue(seg, op.operand) = Residue(seg, pre.op.operand)) =>
                op.result = pre.op.result

\* C14 witness: on the segment with 0x200 bytes over 0x000..0x3FF, 0xFE was
\* written at 0x0FF and the read at 0x2FF has returned 0xFE.
C14_MirrorWitness ==
    /\ segments.segment.name = "segment1"
    /\ pre.op.name = "segment_write" /\ pre.op.operand = 255
    /\ pre.op.result = 254
    /\ op.name = "segment_read" /\ op.operand = 767 /\ op.result = 254

\* C15: the RAM segment owns exactly the addresses 0x0000..0x1FFF: its
\* contains(a) is true iff a < 0x2000, for the bus's RAM definition and for
\* the cpu's RAM definition.
C15_RamOwnsFirstEightKilobytes ==
    (op.name = "contains"
     /\ segments.segment.name \in {"cpu::ram", "memory::random_access_memory"})
        => ((op.result = 1) = (op.operand < 8192))

----------------------------------------------------------------------------
(* Claims about the bus.                                                   *)

\* C13: memory::read and memory::write forward every 16-bit address to
\* exactly one device, the same for both: RAM for 0x0000..0x1FFF, the
\* graphics registers for 0x2000..0x3FFF, the I/O registers for
\* 0x4000..0x401F and the cartridge for 0x4020..0xFFFF.
C13_Dispatch ==
    op.name \in {"memory_read", "memory_write"} =>
        LET a == op.operand
        IN  /\ op.frame.at = a
            /\ (op.frame.kind = "cpu") = (a >= 0 /\ a <= 8191)
            /\ (op.frame.kind = "ppu") = (a >= 8192 /\ a <= 16383)
            /\ (op.frame.kind = "registers") = (a >= 16384 /\ a <= 16415)
            /\ (op.frame.kind = "cartridge") = (a >= 16416 /\ a <= 65535)
            /\ (segments # pre.segments) =>
                    op.name = "memory_write" /\ op.frame.kind = "registers"

\* C13 witness: a write at 0x401F has reached the last cell of the I/O
\* registers.
C13_BoundaryWitness ==
    /\ op.name = "memory_write" /\ op.operand = 16415
    /\ op.frame.kind = "registers" /\ op.result = 254
    /\ read_cell(segments.registers.storage, 31) = 254

\* C16: a bus read, write or address-to-segment mapping for an address that
\* no registered range covers ends in a distinct fatal error: it returns no
\* value, reaches no device and does not leave the result undefined.
C16_UncoveredIsFatal ==
    /\ (op.name = "map" /\ op.operand >= 8192) => op.frame.kind = "fatal"
    /\ op.name \in {"memory_read", "memory_write"} =>
            op.frame.kind \in {"cpu", "ppu", "registers", "cartridge", "fatal"}

----------------------------------------------------------------------------
(* Claims about brk and rti.                                               *)

\* The byte the bus holds at an address of RAM or of the cartridge's upper
\* half.
StoredByte(address) ==
    IF address < 8192 THEN read_cell(storage, (address % 2048) - 256)
    ELSE PrgByte((address - 32768) % 16384)

\* The pushes of brk and the return of rti, without the vector: brk with
\* program counter p, flags f and stack pointer s has pushed the high byte
\* of p, the low byte of p and f.instruction_value(), in this order, and
\* left the pointer at (s - 3) mod 256 and the flags as they were; an rti
\* executed next has restored the flags to f, the program counter to p and
\* the pointer to s.
BreakPushesAndReturn ==
    /\ op.name = "brk" =>
            LET p == pre.program_counter
                s == pre.pointer
                f == pre.status
            IN  /\ read_cell(storage, s) = p \div 256
                /\ read_cell(storage, (s - 1) % 256) = p % 256
                /\ read_cell(storage, (s - 2) % 256) =
                      48 + bool_int(f.carry) + 2 * bool_int(f.zero)
                      + 4 * bool_int(f.interrupt_disable)
                      + 8 * bool_int(f.decimal) + 64 * bool_int(f.overflow)
                      + 128 * bool_int(f.negative)
                /\ pointer = (s - 3) % 256
                /\ status = f
    /\ (op.name = "rti" /\ pre.op.name = "brk") =>
            /\ status = pre.status
            /\ program_counter = op.frame.value
            /\ pointer = op.frame.at

\* C17: brk pushes the high byte of the program counter, its low byte and
\* the instruction value of the flags, leaves the pointer three lower, and
\* sets the program counter to the 16-bit word stored at the vector (low
\* byte at the vector, high byte after it); an rti executed next restores
\* the flags, the program counter (no increment) and the pointer.
C17_BreakAndReturn ==
    /\ BreakPushesAndReturn
    /\ op.name = "brk" =>
            program_counter = StoredByte(op.operand)
                              + 256 * StoredByte(op.operand + 1)

----------------------------------------------------------------------------
(* Claims about loads, stores and transfers.                               *)

\* The registers other than those named are as before the operation.
OthersKept(changed) ==
    /\ "accumulator" \in changed \/ accumulator = pre.accumulator
    /\ "x" \in changed \/ x = pre.x
    /\ "y" \in changed \/ y = pre.y
    /\ "pointer" \in changed \/ pointer = pre.pointer
    /\ program_counter = pre.program_counter

\* C18: txs and tsx copy the source register to the destination and leave
\* all six flags unchanged, for every register value; tax, tay, txa and tya
\* copy the value and set zero and negative from it, changing no other flag
\* and not the source register.
C18_Transfers ==
    /\ op.name = "txs" =>
            pointer = pre.x /\ status = pre.status /\ OthersKept({"pointer"})
    /\ op.name = "tsx" =>
            x = pre.pointer /\ status = pre.status /\ OthersKept({"x"})
    /\ op.name \in {"tax", "tay", "txa", "tya"} =>
            LET from == IF op.name \in {"tax", "tay"} THEN pre.accumulator
                        ELSE IF op.name = "txa" THEN pre.x ELSE pre.y
            IN  /\ op.name = "tax" => x = from /\ OthersKept({"x"})
                /\ op.name = "tay" => y = from /\ OthersKept({"y"})
                /\ op.name \in {"txa", "tya"} =>
                        accumulator = from /\ OthersKept({"accumulator"})
                /\ status = [pre.status EXCEPT !.zero = (from = 0),
                                               !.negative = (from >= 128)]

\* C19: lda, ldx and ldy set the accumulator, X or Y to the operand and
\* change nothing else (the six flags, the other registers, the stack
\* pointer, the program counter and memory), for every operand, 0x00 and
\* bytes with bit 7 set included; sta, stx and sty write the register to
\* the referenced cell and change no register and no flag.
C19_LoadsAndStores ==
    /\ op.name = "lda" =>
            accumulator = op.operand /\ OthersKept({"accumulator"})
    /\ op.name = "ldx" => x = op.operand /\ OthersKept({"x"})
    /\ op.name = "ldy" => y = op.operand /\ OthersKept({"y"})
    /\ op.name \in LoadOps =>
            status = pre.status /\ storage = <<>> /\ segments = pre.segments
    /\ op.name \in StoreOps =>
            LET a == op.operand
                value == CASE op.name = "sta" -> pre.accumulator
                           [] op.name = "stx" -> pre.x
                           [] op.name = "sty" -> pre.y
            IN  /\ OthersKept({}) /\ status = pre.status
                /\ op.result = value /\ op.frame.at = a
                /\ a < 8192 =>
                        /\ read_cell(storage, (a % 2048) - 256) = value
                        /\ \A i \in DOMAIN storage : i = (a % 2048) - 256
                        /\ segments = pre.segments
                /\ (a >= 16384 /\ a < 16416) =>
                        /\ read_cell(segments.registers.storage, a - 16384)
                              = value
                        /\ storage = <<>>
                /\ (a >= 8192 /\ a < 16384) \/ a >= 16416 =>
                        storage = <<>> /\ segments = pre.segments

\* C19 witness: lda of 0x00 with the zero flag clear and the negative flag
\* set has left both as they were.
C19_LoadWitness ==
    /\ op.name = "lda" /\ op.operand = 0 /\ accumulator = 0
    /\ pre.accumulator # 0 /\ ~status.zero /\ status.negative
    /\ status = pre.status

----------------------------------------------------------------------------
(* Claims about the rotates.                                               *)

\* The flags of a rotate of v with carry-in c: carry is the bit rotated out
\* and zero and negative describe the rotated byte.
RotateFlags ==
    /\ op.name = "rol" =>
            LET v == op.operand
                rotated == (v * 2 + op.result) % 256
            IN  /\ status.carry = (v >= 128)
                /\ status.zero = (rotated = 0)
                /\ status.negative = (rotated >= 128)
    /\ op.name = "ror" =>
            LET v == op.operand
                rotated == (v \div 2) + 128 * op.result
            IN  /\ status.carry = (v % 2 = 1)
                /\ status.zero = (rotated = 0)
                /\ status.negative = (rotated >= 128)

\* C20: for every byte v and carry-in c, rol produces ((v << 1) | c) mod 256
\* with carry-out the old bit 7 of v, and ror produces (v >> 1) | (c << 7)
\* with carry-out the old bit 0 of v; the produced value is what the
\* accumulator holds afterwards, zero and negative are set from it, and rol
\* followed by ror restores both v and c.
C20_Rotates ==
    /\ RotateFlags
    /\ op.name = "rol" => accumulator = (op.operand * 2 + op.result) % 256
    /\ op.name = "ror" =>
            accumulator = (op.operand \div 2) + 128 * op.result
    /\ (op.name = "ror" /\ pre.op.name = "rol") =>
            /\ accumulator = pre.op.operand
            /\ status.carry = (pre.op.result = 1)

----------------------------------------------------------------------------
(* Claims about increments and decrements.                                 *)

\* The byte an increment or decrement started from, and the byte its target
\* holds afterwards.
StepFrom ==
    CASE op.name \in {"inx", "dex"} -> pre.x
      [] op.name \in {"iny", "dey"} -> pre.y
      [] OTHER -> op.result

StepTo ==
    CASE op.name \in {"inx", "dex"} -> x
      [] op.name \in {"iny", "dey"} -> y
      [] op.frame.kind = "cpu" ->
            read_cell(storage, (op.operand % 2048) - 256)
      [] OTHER -> read_cell(segments.registers.storage, op.operand - 16384)

\* C21: inc, inx and iny produce (v + 1) mod 256 and dec, dex and dey
\* produce (v - 1) mod 256 for every byte v (0xff increments to 0x00, 0x00
\* decrements to 0xff), set zero and negative from the 8-bit result, and
\* leave carry, overflow, decimal and interrupt-disable unchanged.
C21_IncrementsAndDecrements ==
    op.name \in StepOps =>
        LET expected == IF op.name \in {"inc", "inx", "iny"}
                        THEN (StepFrom + 1) % 256
                        ELSE (StepFrom + 255) % 256
        IN  /\ StepTo = expected
            /\ status.zero = (expected = 0)
            /\ status.negative = (expected >= 128)
            /\ status.carry = pre.status.carry
            /\ status.overflow = pre.status.overflow
            /\ status.decimal = pre.status.decimal
            /\ status.interrupt_disable = pre.status.interrupt_disable

\* C21 witness: inx of 0xff with the carry clear and the zero flag clear has
\* left 0x00 in X, the zero flag set and the carry clear.
C21_WrapWitness ==
    /\ op.name = "inx" /\ pre.x = 255 /\ x = 0
    /\ ~pre.status.zero /\ ~pre.status.carry
    /\ status.zero /\ ~status.negative /\ ~status.carry

----------------------------------------------------------------------------
(* Claims about branches and jmp.                                          *)

\* The flag condition of each branch instruction, in the flags f.
BranchCondition(name, f) ==
    CASE name = "bcs" -> f.carry
      [] name = "bcc" -> ~f.carry
      [] name = "beq" -> f.zero
      [] name = "bne" -> ~f.zero
      [] name = "bmi" -> f.negative
      [] name = "bpl" -> ~f.negative
      [] name = "bvs" -> f.overflow
      [] name = "bvc" -> ~f.overflow

\* C22: each branch instruction sets the program counter to its pointer
\* operand iff its flag condition holds (bcs: carry, bcc: not carry, beq:
\* zero, bne: not zero, bmi: negative, bpl: not negative, bvs: overflow,
\* bvc: not overflow) and otherwise leaves the program counter unchanged,
\* so that of each complementary pair exactly one branches from any flags;
\* no branch or jmp changes a flag, a register or the stack.
C22_Branches ==
    /\ op.name \in BranchOps =>
            /\ (op.result = 1) = BranchCondition(op.name, pre.status)
            /\ program_counter = IF BranchCondition(op.name, pre.status)
                                 THEN op.operand ELSE pre.program_counter
    /\ op.name = "jmp" => program_counter = op.operand
    /\ op.name \in JumpOps =>
            /\ status = pre.status
            /\ accumulator = pre.accumulator /\ x = pre.x /\ y = pre.y
            /\ pointer = pre.pointer
            /\ storage = VectorRam /\ segments = pre.segments

\* C22 witness: bvs with the overflow flag set, and no other flag, has moved
\* the program counter from 0x8003 to 0xc000.
C22_TakenWitness ==
    /\ op.name = "bvs" /\ op.operand = 49152 /\ op.result = 1
    /\ pre.program_counter = 32771 /\ program_counter = 49152
    /\ status = status_from(64)

----------------------------------------------------------------------------
(* Claims about the cartridge and the ROM file.                            *)

\* The rom_file is within the limits of mapper 0.
WithinLimits(file) ==
    file.mapper = 0 /\ file.prg_rom <= 32768 /\ file.chr_rom <= 8192

\* C23: constructing a cartridge from a rom_file fails with a load-time
\* error iff the mapper number is not 0, or the PRG-ROM is larger than
\* 0x8000 bytes, or the CHR-ROM is larger than 0x2000 bytes; for every
\* rom_file within these limits construction succeeds, and no cartridge
\* that violates them can be read from.
C23_CartridgeLimits ==
    /\ op.name = "cartridge" =>
            /\ segments.cartridge.state =
                    IF WithinLimits(segments.file) THEN "built"
                    ELSE "load error"
            /\ op.frame.kind = segments.cartridge.state
    /\ op.name = "cartridge_read" =>
            /\ WithinLimits(segments.file)
            /\ segments.cartridge.state = "built"
    /\ op.name = "init" => segments.cartridge.state = "none"

\* C23 witness: a rom_file of mapper 0 with exactly 0x8000 bytes of PRG-ROM
\* and 0x2000 bytes of CHR-ROM was constructed from and then read.
C23_AtLimitWitness ==
    /\ op.name = "cartridge_read" /\ pre.op.name = "cartridge"
    /\ segments.file = [mapper |-> 0, prg_rom |-> 32768, chr_rom |-> 8192]
    /\ segments.cartridge.state = "built"

\* The file of the path read begins with the bytes 4e 45 53 1a.
MagicPresent ==
    /\ byte_at(segments.path.file, 0) = 78
    /\ byte_at(segments.path.file, 1) = 69
    /\ byte_at(segments.path.file, 2) = 83
    /\ byte_at(segments.path.file, 3) = 26

\* The count bytes of the file from a position on.
FileBytes(from, count) ==
    joined(take(drop(segments.path.file, from), count))

\* Position in the file of the first PRG bank.
FirstBank == 16 + IF bit(byte_at(segments.path.file, 6), 2) THEN 512 ELSE 0

\* C24: after read_rom succeeds on a file with a valid header, the rom_file
\* holds exactly header-byte-4 PRG banks of 16 KB and exactly header-byte-5
\* CHR banks of 8 KB, filled from the file in the order trainer (512 bytes,
\* only if bit 2 of byte 6 is set), PRG banks, CHR banks; a header 4e 45 53
\* 1a 01 01 00 00 yields exactly one PRG bank and one CHR bank.
C24_BanksAsInHeader ==
    (op.name = "read_rom" /\ segments.rom.outcome = "rom_file"
     /\ MagicPresent) =>
        LET prg == byte_at(segments.path.file, 4)
            chr == byte_at(segments.path.file, 5)
        IN  /\ Len(segments.rom.prg_rom) = prg
            /\ Len(segments.rom.chr_rom) = chr
            /\ \A k \in 1 .. prg :
                    k <= Len(segments.rom.prg_rom) =>
                        segments.rom.prg_rom[k]
                            = FileBytes(FirstBank + (k - 1) * 16384, 16384)
            /\ \A k \in 1 .. chr :
                    k <= Len(segments.rom.chr_rom) =>
                        segments.rom.chr_rom[k]
                            = FileBytes(FirstBank + prg * 16384
                                            + (k - 1) * 8192, 8192)

\* C25: read_rom ends in a load error and returns no rom_file whenever the
\* file is missing, cannot be opened, or any of its first four bytes
\* differs from 4e 45 53 1a (the check of these bytes comes before any
\* flag, mapper number or bank is taken from the file), and a file that
\* begins with these bytes is never rejected by this check.
C25_LoadErrors ==
    op.name = "read_rom" =>
        /\ (~segments.path.exists \/ ~segments.path.opens) =>
                segments.rom.outcome = "invalid_argument"
        /\ (segments.path.opens /\ ~MagicPresent) =>
                segments.rom.outcome = "runtime_error"
        /\ (segments.path.opens /\ MagicPresent) =>
                segments.rom.outcome # "runtime_error"

----------------------------------------------------------------------------
(* Claims about byte and word values.                                      *)

\* C26: for all 8-bit values a and b, the result of byte(a) + byte(b)
\* compares equal to byte((a + b) mod 256): adding two bytes wraps to 8
\* bits, also when a + b > 255.
C26_ByteSumWraps ==
    op.name = "plus" => op.result = (pre.accumulator + pre.x) % 256

\* C27: for every 16-bit word w, w.high() is bits 8..15 and w.low() is bits
\* 0..7 of w (0xabcd gives 0xab and 0xcd), and word(w.high(), w.low()) = w;
\* for every pair of bytes h, l, word(h, l) is h * 256 + l.
C27_WordHighLow ==
    /\ op.name = "split" =>
            /\ accumulator = (op.operand \div 256) % 256
            /\ x = op.operand % 256
            /\ op.operand = 43981 => accumulator = 171 /\ x = 205
    /\ op.name = "word" =>
            /\ program_counter = op.operand * 256 + op.result
            /\ program_counter = pre.op.operand

\* C27 witness: 0xabcd was split into 0xab and 0xcd, and the word made of
\* these is 0xabcd.
C27_RoundTripWitness ==
    /\ op.name = "word" /\ pre.op.name = "split"
    /\ op.operand = 171 /\ op.result = 205
    /\ pre.op.operand = 43981 /\ program_counter = 43981

\* C28: for every address in 0x4020..0xffff that the bus forwards to the
\* cartridge, cartridge::read computes an index i with 0 <= i < the size of
\* the PRG storage, so that no read of the cartridge indexes outside the
\* loaded PRG-ROM; and with two PRG banks loaded an address 0xc000 + k
\* reads byte k of the second bank, not of the first.
C28_CartridgeReadWithinPrg ==
    (op.name = "memory_read" /\ op.frame.kind = "cartridge") =>
        /\ op.operand >= 16416
        /\ prg_index(op.operand) >= 0 /\ prg_index(op.operand) < PrgSize
        /\ op.operand >= 49152 =>
                op.result = PrgByte(16384 + (op.operand - 49152))

----------------------------------------------------------------------------
(* Claims about references and views.                                      *)

\* C29: for every address a in 0x0000..0xfffe and every word w, assigning w
\* through a memory reference at a and then reading a word through a
\* reference at the same a returns w: the write stores the low byte at a
\* and the high byte at a + 1, and the read takes the low byte from a and
\* the high byte from a + 1.
C29_WordThroughReference ==
    /\ (op.name = "assign_word" /\ op.operand < 8191) =>
            /\ cpu_read(storage, op.operand) = op.result % 256
            /\ cpu_read(storage, op.operand + 1) = op.result \div 256
    /\ (op.name = "reference_word" /\ pre.op.name = "assign_word") =>
            op.result = pre.op.result

\* C30: for every segment<size, begin, end> and every 16-bit address a the
\* view returned by segment::view() agrees with the segment: view().contains(a)
\* is segment::contains(a), true iff begin <= a < end, and for a contained
\* address view().read(a) returns the cell segment::read(a) returns; also
\* for segments whose begin is not 0, such as the I/O registers at
\* 0x4000..0x401f.
C30_ViewAgreesWithSegment ==
    /\ op.name = "view_contains" =>
            /\ (op.result = 1) = segment_contains(segment, op.operand)
            /\ (op.result = 1) = (segment.begin <= op.operand
                                  /\ op.operand < segment.end)
    /\ (op.name = "view_read" /\ segment_contains(segment, op.operand)) =>
            op.result = segment_read(segment, op.operand)

====
